---- MODULE Spec2Model ----
(***************************************************************************)
(* A model of claude-foundry's setup tool (tools/setup.py): the copy       *)
(* routines that reconcile a project's .claude/ tree with the registry,    *)
(* the private-source operations, prefix validation, manifest migration   *)
(* and the header block of CLAUDE.md.                                      *)
(*                                                                         *)
(* Text is modelled character by character: a string is a sequence of      *)
(* one-character strings, so that startswith, Path.suffix and the prefix    *)
(* pattern are computed the way the code computes them.                    *)
(***************************************************************************)
EXTENDS Integers, Sequences, FiniteSets, TLC

VARIABLES
    tree,      \* the project's .claude/ category directories
    repo,      \* what exists under REPO_ROOT (the registry's source files)
    psrc,      \* the private source directories, by path
    sources,   \* the manifest's private_sources list (PrivateSourceRef)
    manifest,  \* the selection record last written by save_manifest
    prev,      \* the tree before the last operation
    last,      \* the last operation: its name, inputs and result
    nuser,     \* how many entries the user has put into the tree
    nops,      \* how many operations have run
    cand,      \* validate_prefix: the candidate
    verdict,   \* validate_prefix: the returned error class, or "none"
    mrules,    \* migrate_manifest: the input's modular_rules
    mout,      \* migrate_manifest: the result's modular_rules
    claude_md, \* the project's CLAUDE.md: whether it exists, and its text
    claude_old,\* the project's CLAUDE.md.old
    hdr,       \* the header block the last operation rendered or spliced in
    rin,       \* the deployed rules and selected languages hdr was rendered from
    mode,      \* how the last operation, a cmd_init, was called and answered
    mdop,      \* what the last operation did to CLAUDE.md, and the files before it
    mraw,      \* setup-manifest.json when it is not what save_manifest wrote
    failing,   \* the names under .claude/rules, and CLAUDE.md.old, that cannot be written
    exc,       \* the exception the last operation raised, "none" if it returned
    ver,       \* the repository's version, and the project's .claude/VERSION
    menu,      \* toggle_menu: where the call stands, and the set it was handed
    ua,        \* cmd_update_all: the projects, the loop's position, the buckets
    detected,  \* detect_languages and detect_platform: the rules the project's files show
    ci         \* cmd_init: the input() it waits in, and what it holds meanwhile

\* the files and failures around CLAUDE.md that only cmd_init touches
docvars == <<claude_md, claude_old, mraw, failing, exc>>

vars == <<tree, repo, psrc, sources, manifest, prev, last, nuser, nops,
          cand, verdict, mrules, mout, claude_md, claude_old, hdr, rin, mode,
          mdop, mraw, failing, exc, ver, menu, ua, detected, ci>>

(***************************************************************************)
(* Bounds of the model.                                                    *)
(***************************************************************************)
MaxUser == 1
MaxMissing == 1
MaxOps == 2
MaxEdits == 1

(***************************************************************************)
(* Strings.                                                                *)
(***************************************************************************)
MD == <<".", "m", "d">>
SH == <<".", "s", "h">>
HY == <<"-">>
SL == <<"/">>

\* str.startswith
StartsWith(s, p) == Len(p) <= Len(s) /\ SubSeq(s, 1, Len(p)) = p

\* str.rfind of one character: the last index holding ch, 0 when there is none
RFind(s, ch) ==
    LET hits == {i \in 1..Len(s) : s[i] = ch}
    IN  IF hits = {} THEN 0 ELSE CHOOSE i \in hits : \A j \in hits : j <= i

\* pathlib's PurePath.suffix of a file name
Suffix(name) ==
    LET i == RFind(name, ".")
    IN  IF 1 < i /\ i < Len(name) THEN SubSeq(name, i, Len(name)) ELSE <<>>

\* pathlib's PurePath.name of a relative identifier
Basename(id) == SubSeq(id, RFind(id, "/") + 1, Len(id))

\* the elements of a list
Range(seq) == {seq[i] : i \in 1..Len(seq)}

(***************************************************************************)
(* Names used in the model.  Categories and identifiers are strings.       *)
(***************************************************************************)
PYTHON_MD ==
    <<"p", "y", "t", "h", "o", "n", ".", "m", "d">>

PYTHON_QT_MD ==
    <<"p", "y", "t", "h", "o", "n", "-", "q", "t", ".", "m", "d">>

REACT_MD ==
    <<"r", "e", "a", "c", "t", ".", "m", "d">>

NODEJS_MD ==
    <<"n", "o", "d", "e", "j", "s", ".", "m", "d">>

C_MD ==
    <<"c", ".", "m", "d">>

C_EMBEDDED_MD ==
    <<"c", "-", "e", "m", "b", "e", "d", "d", "e", "d", ".", "m", "d">>

CPP_MD ==
    <<"c", "p", "p", ".", "m", "d">>

GO_MD ==
    <<"g", "o", ".", "m", "d">>

RUST_MD ==
    <<"r", "u", "s", "t", ".", "m", "d">>

MATLAB_MD ==
    <<"m", "a", "t", "l", "a", "b", ".", "m", "d">>

GITHUB_MD ==
    <<"g", "i", "t", "h", "u", "b", ".", "m", "d">>

CODING_STYLE_MD ==
    <<"c", "o", "d", "i", "n", "g", "-", "s", "t", "y", "l", "e", ".", "m",
      "d">>

GIT_WORKFLOW_MD ==
    <<"g", "i", "t", "-", "w", "o", "r", "k", "f", "l", "o", "w", ".", "m",
      "d">>

SECURITY_MD ==
    <<"s", "e", "c", "u", "r", "i", "t", "y", ".", "m", "d">>

TESTING_MD ==
    <<"t", "e", "s", "t", "i", "n", "g", ".", "m", "d">>

ARCHITECTURE_MD ==
    <<"a", "r", "c", "h", "i", "t", "e", "c", "t", "u", "r", "e", ".", "m",
      "d">>

PERFORMANCE_MD ==
    <<"p", "e", "r", "f", "o", "r", "m", "a", "n", "c", "e", ".", "m", "d">>

AGENTS_MD ==
    <<"a", "g", "e", "n", "t", "s", ".", "m", "d">>

CODEMAPS_MD ==
    <<"c", "o", "d", "e", "m", "a", "p", "s", ".", "m", "d">>

HOOKS_MD ==
    <<"h", "o", "o", "k", "s", ".", "m", "d">>

CUSTOM_RULE_MD ==
    <<"c", "u", "s", "t", "o", "m", "-", "r", "u", "l", "e", ".", "m", "d">>

PYRIGHT_LSP == <<"p", "y", "r", "i", "g", "h", "t", "-", "l", "s", "p">>
FEATURE_DEV == <<"f", "e", "a", "t", "u", "r", "e", "-", "d", "e", "v">>
TYPESCRIPT == <<"t", "y", "p", "e", "s", "c", "r", "i", "p", "t">>
GUI_THREADING == <<"g", "u", "i", "-", "t", "h", "r", "e", "a", "d", "i", "n", "g">>
PYTHON_QT_GUI == <<"p", "y", "t", "h", "o", "n", "-", "q", "t", "-", "g", "u", "i">>
MCP_M == <<"m">>

T_MD == <<"t">> \o MD
G_MD == <<"g">> \o MD
K_MD == <<"k">> \o MD
Z_MD == <<"z">> \o MD
H_SH == <<"h">> \o SH
LANG == <<"l", "a", "n", "g">>
W_STYLE == <<"s", "t", "y", "l", "e">>
W_ARCH == <<"a", "r", "c", "h">>
W_DOMAIN == <<"d", "o", "m", "a", "i", "n">>
W_PLATFORM == <<"p", "l", "a", "t", "f", "o", "r", "m">>
W_SECURITY == <<"s", "e", "c", "u", "r", "i", "t", "y">>
SKILL_S == <<"s">>
CAT_C == <<"c">>
LEARNED == <<"l", "e", "a", "r", "n", "e", "d">>
LEARNED_LOCAL == LEARNED \o HY \o <<"l", "o", "c", "a", "l">>

\* the two files of the project root that cmd_init writes
CLAUDE_MD == <<"C", "L", "A", "U", "D", "E", ".", "m", "d">>
CLAUDE_MD_OLD == CLAUDE_MD \o <<".", "o", "l", "d">>

\* The category directories under .claude/ (hooks stands for hooks/library).
Dirs == {"rules", "agents", "commands", "skills", "hooks"}

(***************************************************************************)
(* The registry.  MODULAR_RULES has the lang and platform categories of    *)
(* the source (each category as the list of its keys) and nothing in the   *)
(* other four; BASE_RULES, SKILLS and HOOK_SCRIPTS, and the files of       *)
(* AGENTS_DIR and COMMANDS_DIR, are a small instance.                      *)
(***************************************************************************)
BASE_RULES == <<T_MD>>
\* for category in ["lang", "style", "arch", "domain", "platform", "security"]
ModularCategories == <<LANG, W_STYLE, W_ARCH, W_DOMAIN, W_PLATFORM, W_SECURITY>>
MODULAR_RULES ==
    [c \in Range(ModularCategories) |->
        CASE c = LANG -> <<PYTHON_MD, PYTHON_QT_MD, REACT_MD, NODEJS_MD, C_MD,
                           C_EMBEDDED_MD, CPP_MD, GO_MD, RUST_MD, MATLAB_MD>>
          [] c = W_PLATFORM -> <<GITHUB_MD>>
          [] OTHER -> <<>>]
\* LSP_PLUGINS and WORKFLOW_PLUGINS, the plugin names: a small instance
LSP_PLUGINS == [l \in {PYTHON_MD} |-> PYRIGHT_LSP]
WORKFLOW_PLUGINS == <<FEATURE_DEV>>
\* the language rules the runs of the model select among
TriedLangs == <<PYTHON_MD>>
SKILLS == <<SKILL_S>>
HOOK_SCRIPTS == <<H_SH>>
AgentFiles == <<G_MD>>
CommandFiles == {K_MD}

\* A file or directory under REPO_ROOT; a deployed entry's content is the
\* source it was copied from.
Src(kind, cat, name) == [o |-> "repo", k |-> kind, c |-> cat, n |-> name]
UserContent == [o |-> "user", k |-> "", c |-> <<>>, n |-> <<>>]

\* MCP_SERVERS_FILE, and the keys of its "mcpServers" when it exists
McpServersFile == Src("mcp-configs", <<>>, <<>>)
McpNames(r) == IF McpServersFile \in r THEN <<MCP_M>> ELSE <<>>

\* Every source the model's REPO_ROOT can hold.
RepoAll ==
    {Src("rules", <<>>, T_MD), Src("lib", LANG, PYTHON_MD),
     Src("agents", <<>>, G_MD), Src("commands", <<>>, K_MD),
     Src("skills", <<>>, SKILL_S), Src("hooks", <<>>, H_SH),
     Src("commandsdir", <<>>, <<>>), Src("learned", <<>>, CAT_C)}

(***************************************************************************)
(* The destination tree: tree[d].present says whether the directory        *)
(* exists, tree[d].ents maps each entry name to its content.               *)
(***************************************************************************)
NoEnts == [n \in {} |-> UserContent]
Put(ents, n, c) == [x \in (DOMAIN ents) \cup {n} |-> IF x = n THEN c ELSE ents[x]]
Del(ents, gone) == [x \in (DOMAIN ents) \ gone |-> ents[x]]
Listing(t, d) == DOMAIN t[d].ents
SetEnts(t, d, e) == [t EXCEPT ![d] = [present |-> TRUE, ents |-> e]]
EmptyTree == [d \in Dirs |-> [present |-> FALSE, ents |-> NoEnts]]

(***************************************************************************)
(* The registry's copy routines.  r is the set of sources that exist       *)
(* under REPO_ROOT.                                                        *)
(***************************************************************************)

\* copy_rules, the base loop: for rule in base: copy2 if the source exists
RECURSIVE CopyBase(_, _, _, _)
CopyBase(ents, r, base, i) ==
    IF i > Len(base) THEN ents
    ELSE LET src == Src("rules", <<>>, base[i])
         IN  CopyBase(IF src \in r THEN Put(ents, base[i], src) ELSE ents,
                      r, base, i + 1)

\* the bug the idempotence check is tried against: the collision test
\* without "and rule in base"
ModularDestNameAnyCollision(ents, base, category, rule) ==
    IF rule \in DOMAIN ents THEN category \o HY \o rule ELSE rule

\* the destination name copy_rules gives a modular rule: the value
\* dest_name holds when copy2 is called
ModularDestName(ents, base, category, rule) ==
    IF rule \in DOMAIN ents /\ rule \in Range(base)
    THEN category \o HY \o rule
    ELSE rule

\* copy_rules, the inner loop over one category's rules
RECURSIVE CopyCategory(_, _, _, _, _, _)
CopyCategory(ents, r, base, category, rules, i) ==
    IF i > Len(rules) THEN ents
    ELSE LET src == Src("lib", category, rules[i])
             dst == ModularDestName(ents, base, category, rules[i])
         IN  CopyCategory(IF src \in r THEN Put(ents, dst, src) ELSE ents,
                          r, base, category, rules, i + 1)

\* copy_rules, the loop over modular.items(); modular is the dict as the
\* list of its items, in order
RECURSIVE CopyModular(_, _, _, _, _)
CopyModular(ents, r, base, modular, i) ==
    IF i > Len(modular) THEN ents
    ELSE CopyModular(CopyCategory(ents, r, base, modular[i].cat, modular[i].rules, 1),
                     r, base, modular, i + 1)

copy_rules(t, r, base, modular) ==
    SetEnts(t, "rules",
            CopyModular(CopyBase(t["rules"].ents, r, base, 1), r, base, modular, 1))

\* the copy loop shared by copy_agents and copy_hooks: copy2 of every
\* listed name whose source exists
RECURSIVE CopyFiles(_, _, _, _, _)
CopyFiles(ents, r, kind, names, i) ==
    IF i > Len(names) THEN ents
    ELSE LET src == Src(kind, <<>>, names[i])
         IN  CopyFiles(IF src \in r THEN Put(ents, names[i], src) ELSE ents,
                       r, kind, names, i + 1)

\* the stale entries copy_agents and copy_commands unlink
StaleMd(ents, wanted) == {n \in DOMAIN ents : Suffix(n) = MD /\ n \notin wanted}

copy_agents(t, r, agents) ==
    SetEnts(t, "agents",
            CopyFiles(Del(t["agents"].ents, StaleMd(t["agents"].ents, Range(agents))),
                      r, "agents", agents, 1))

\* the .md files of COMMANDS_DIR
SourceCommands(r) ==
    IF Src("commandsdir", <<>>, <<>>) \in r
    THEN {n \in CommandFiles : Src("commands", <<>>, n) \in r /\ Suffix(n) = MD}
    ELSE {}

copy_commands(t, r) ==
    IF Src("commandsdir", <<>>, <<>>) \notin r THEN t
    ELSE LET names == SourceCommands(r)
             kept == Del(t["commands"].ents, StaleMd(t["commands"].ents, names))
         IN  SetEnts(t, "commands",
                     [n \in (DOMAIN kept) \cup names |->
                         IF n \in names THEN Src("commands", <<>>, n) ELSE kept[n]])

\* copy_skills: rmtree of the destination, then copytree, for every
\* listed skill whose source is a directory
RECURSIVE CopySkillDirs(_, _, _, _)
CopySkillDirs(t, r, skills, i) ==
    IF i > Len(skills) THEN t
    ELSE LET src == Src("skills", <<>>, skills[i])
         IN  CopySkillDirs(IF src \in r
                           THEN SetEnts(t, "skills", Put(t["skills"].ents, skills[i], src))
                           ELSE t,
                           r, skills, i + 1)

\* a copy_skills that empties the skills directory of everything outside the
\* selection before it copies
copy_skills_wiping(t, r, skills) ==
    CopySkillDirs(SetEnts(t, "skills",
                      Del(t["skills"].ents, DOMAIN t["skills"].ents \ Range(skills))),
                  r, skills, 1)

copy_skills(t, r, skills) == CopySkillDirs(t, r, skills, 1)

copy_hooks(t, r, hooks) ==
    IF hooks = <<>> THEN t
    ELSE SetEnts(t, "hooks", CopyFiles(t["hooks"].ents, r, "hooks", hooks, 1))

(***************************************************************************)
(* Private sources.  The code of validate_prefix, clean_private_files,     *)
(* deploy_private_source and redeploy_private_sources is not part of the   *)
(* sources at hand; these operators follow the specification (section     *)
(* 4.2) and the tests of tests/test_private_sources.py.                    *)
(***************************************************************************)
Lower == {"a", "b", "c", "d", "e", "f", "g", "h", "i", "j", "k", "l", "m",
          "n", "o", "p", "q", "r", "s", "t", "u", "v", "w", "x", "y", "z"}
Digit == {"0", "1", "2", "3", "4", "5", "6", "7", "8", "9"}

\* the pattern ^[a-z][a-z0-9-]*$, matched from the left one character at
\* a time
RECURSIVE MatchTail(_, _)
MatchTail(s, i) ==
    IF i > Len(s) THEN TRUE
    ELSE IF s[i] \in Lower \cup Digit \cup {"-"} THEN MatchTail(s, i + 1)
    ELSE FALSE

\* the pattern without its end anchor: ^[a-z]
MatchesPrefixPatternUnanchored(s) ==
    IF Len(s) = 0 THEN FALSE ELSE s[1] \in Lower

MatchesPrefixPattern(s) ==
    IF Len(s) = 0 THEN FALSE
    ELSE IF s[1] \in Lower THEN MatchTail(s, 2)
    ELSE FALSE

W_RULES == <<"r", "u", "l", "e", "s">>
W_AGENTS == <<"a", "g", "e", "n", "t", "s">>
W_COMMANDS == <<"c", "o", "m", "m", "a", "n", "d", "s">>
W_SKILLS == <<"s", "k", "i", "l", "l", "s">>
W_HOOKS == <<"h", "o", "o", "k", "s">>

\* the reserved words: the category names, "learned", "learned-local" and
\* the keys of MODULAR_RULES
ReservedWords ==
    {W_RULES, W_AGENTS, W_COMMANDS, W_SKILLS, W_HOOKS, LEARNED, LEARNED_LOCAL,
     LANG, W_STYLE, W_ARCH, W_DOMAIN, W_PLATFORM, W_SECURITY}

\* validate_prefix: the class of the error message, "none" for no error
validate_prefix(candidate, existing) ==
    IF ~MatchesPrefixPattern(candidate) THEN "lowercase"
    ELSE IF candidate \in ReservedWords THEN "conflicts"
    ELSE IF candidate \in Range(existing) THEN "already registered"
    ELSE "none"

\* A file or directory of the private source directory at `path`
PSrc(path, d, id) == [o |-> "private", k |-> d, c |-> path, n |-> id]

\* the names clean never removes from the skills directory
ProtectedNames == {LEARNED, LEARNED_LOCAL}

\* the entries of directory d that clean_private_files removes for a prefix
PrefixOwned(t, d, prefix) ==
    {n \in DOMAIN t[d].ents :
        /\ StartsWith(n, prefix \o HY)
        /\ ~(d = "skills" /\ n \in ProtectedNames)}

\* clean_private_files
clean_private_files(t, prefix) ==
    [d \in Dirs |->
        IF t[d].present
        THEN [present |-> TRUE, ents |-> Del(t[d].ents, PrefixOwned(t, d, prefix))]
        ELSE t[d]]

\* the order in which deploy_private_source goes through the categories
DeployOrder == <<"rules", "commands", "skills", "agents", "hooks">>

\* a destination name that keeps the sub-directory of the identifier
PrivateDestNameFullId(prefix, id) == prefix \o HY \o id

\* the destination name of a private item
PrivateDestName(prefix, id) == prefix \o HY \o Basename(id)

\* deploy_private_source, one category: the tree and the report after the
\* identifiers ids[i..] have been handled
RECURSIVE DeployCategory(_, _, _, _, _, _, _)
DeployCategory(st, has, path, prefix, d, ids, i) ==
    IF i > Len(ids) THEN st
    ELSE LET src == PSrc(path, d, ids[i])
         IN  DeployCategory(
                 IF src \in has
                 THEN [t |-> SetEnts(st.t, d,
                                 Put(st.t[d].ents, PrivateDestName(prefix, ids[i]), src)),
                       rep |-> [st.rep EXCEPT ![d] = Append(@, ids[i])]]
                 ELSE st,
                 has, path, prefix, d, ids, i + 1)

RECURSIVE DeployAll(_, _, _, _, _, _)
DeployAll(st, has, path, prefix, sel, k) ==
    IF k > Len(DeployOrder) THEN st
    ELSE DeployAll(DeployCategory(st, has, path, prefix, DeployOrder[k],
                                  sel[DeployOrder[k]], 1),
                   has, path, prefix, sel, k + 1)

EmptyReport == [d \in Dirs |-> <<>>]

\* the entries that exist under a private source path (none when the path
\* does not resolve)
SourceEntries(ps, path) == IF ps[path].resolves THEN ps[path].has ELSE {}

\* deploy_private_source: [t |-> the tree afterwards, rep |-> the report]
deploy_private_source(t, ps, path, prefix, sel) ==
    DeployAll([t |-> t, rep |-> EmptyReport], SourceEntries(ps, path),
              path, prefix, sel, 1)

\* redeploy_private_sources: [t |-> the tree afterwards, res |-> one entry
\* per PrivateSourceRef]
RECURSIVE RedeployFrom(_, _, _, _)
RedeployFrom(st, ps, srcs, i) ==
    IF i > Len(srcs) THEN st
    ELSE LET ref == srcs[i]
             dep == deploy_private_source(clean_private_files(st.t, ref.prefix),
                                          ps, ref.path, ref.prefix, ref.sel)
         IN  RedeployFrom(
                 IF ps[ref.path].resolves
                 THEN [t |-> dep.t,
                       res |-> Append(st.res, [ref |-> ref, rep |-> dep.rep])]
                 ELSE [t |-> st.t,
                       res |-> Append(st.res, [ref |-> ref, rep |-> EmptyReport])],
                 ps, srcs, i + 1)

redeploy_private_sources(t, ps, srcs) ==
    RedeployFrom([t |-> t, res |-> <<>>], ps, srcs, 1)

(***************************************************************************)
(* Manifest migration.  migrate_manifest is not part of the sources at     *)
(* hand; the operators follow the specification (section 4.3) and          *)
(* TestMigrateManifest of tests/test_setup_integration.py, which fixes     *)
(* the table's entries.  A modular_rules dict is the list of its items     *)
(* [cat, rules], in order.                                                 *)
(***************************************************************************)
Target(cat, id) == [kind |-> "map", cat |-> cat, id |-> id]
Drop == [kind |-> "drop", cat |-> "", id |-> ""]
NoEntry == [kind |-> "none", cat |-> "", id |-> ""]

\* the bug the migration-idempotence check is tried against: an entry whose
\* target is itself a pair of the table
MigrationTargetChained(cat, id) ==
    CASE cat = "domain" /\ id = "embedded.md" -> Target("templates", "embedded-c.md")
      [] cat = "domain" /\ id = "dsp-audio.md" -> Target("templates", "embedded-dsp.md")
      [] cat = "domain" /\ id = "gui-threading.md" -> Target("templates", "desktop-gui-qt.md")
      [] cat = "domain" /\ id = "gui.md" -> Target("lang", "react.md")
      [] cat = "lang" /\ id = "react.md" -> Target("templates", "react-app.md")
      [] cat = "lang" /\ id = "python-qt.md" -> Target("templates", "desktop-gui-qt.md")
      [] cat = "lang" /\ id = "c.md" -> Drop
      [] cat = "style" /\ id = "backend.md" -> Target("templates", "rest-api.md")
      [] cat = "style" /\ id = "library.md" -> Target("templates", "library.md")
      [] cat = "arch" /\ id = "rest-api.md" -> Target("templates", "rest-api.md")
      [] cat = "arch" /\ id = "react-app.md" -> Target("templates", "react-app.md")
      [] OTHER -> NoEntry

\* MigrationTable: (old category, old identifier) -> target | Drop
MigrationTarget(cat, id) ==
    CASE cat = "domain" /\ id = "embedded.md" -> Target("templates", "embedded-c.md")
      [] cat = "domain" /\ id = "dsp-audio.md" -> Target("templates", "embedded-dsp.md")
      [] cat = "domain" /\ id = "gui-threading.md" -> Target("templates", "desktop-gui-qt.md")
      [] cat = "domain" /\ id = "gui.md" -> Drop
      [] cat = "lang" /\ id = "react.md" -> Target("templates", "react-app.md")
      [] cat = "lang" /\ id = "python-qt.md" -> Target("templates", "desktop-gui-qt.md")
      [] cat = "lang" /\ id = "c.md" -> Drop
      [] cat = "style" /\ id = "backend.md" -> Target("templates", "rest-api.md")
      [] cat = "style" /\ id = "library.md" -> Target("templates", "library.md")
      [] cat = "arch" /\ id = "rest-api.md" -> Target("templates", "rest-api.md")
      [] cat = "arch" /\ id = "react-app.md" -> Target("templates", "react-app.md")
      [] OTHER -> NoEntry

\* the categories of the old schema that the new one no longer has
OldCategories == {"domain", "style", "arch"}

Keys(mod) == {mod[i].cat : i \in 1..Len(mod)}
KeyIndex(mod, cat) == CHOOSE i \in 1..Len(mod) : mod[i].cat = cat

\* an insertion that does not look whether the identifier is there already
InsertIntoAlways(mod, cat, id) ==
    IF cat \in Keys(mod)
    THEN [mod EXCEPT ![KeyIndex(mod, cat)].rules = Append(@, id)]
    ELSE Append(mod, [cat |-> cat, rules |-> <<id>>])

\* insert id into cat's list if not already present; a new key goes last
InsertInto(mod, cat, id) ==
    IF cat \in Keys(mod)
    THEN LET i == KeyIndex(mod, cat)
         IN  IF id \in Range(mod[i].rules) THEN mod
             ELSE [mod EXCEPT ![i].rules = Append(@, id)]
    ELSE Append(mod, [cat |-> cat, rules |-> <<id>>])

\* a pass that keeps none of the items
RetainedNothing(cat, rules) == <<>>

\* the items of cat's list that the table leaves alone, in their order
Retained(cat, rules) ==
    LET keep(id) == MigrationTarget(cat, id).kind = "none"
    IN  SelectSeq(rules, keep)

\* insert the targets of rules[i..] of category cat
RECURSIVE InsertTargets(_, _, _, _)
InsertTargets(mod, cat, rules, i) ==
    IF i > Len(rules) THEN mod
    ELSE LET tg == MigrationTarget(cat, rules[i])
         IN  InsertTargets(IF tg.kind = "map" THEN InsertInto(mod, tg.cat, tg.id)
                           ELSE mod,
                           cat, rules, i + 1)

\* one pass over the categories present in the input `orig`: the list of
\* a category keeps its items without a table entry and what the pass has
\* inserted into it so far
RECURSIVE MigrateFrom(_, _, _)
MigrateFrom(mod, orig, k) ==
    IF k > Len(orig) THEN mod
    ELSE LET cat == orig[k].cat
             i == KeyIndex(mod, cat)
             inserted(id) == id \notin Range(orig[k].rules)
             kept == [mod EXCEPT ![i].rules =
                          Retained(cat, orig[k].rules) \o SelectSeq(@, inserted)]
         IN  MigrateFrom(InsertTargets(kept, cat, orig[k].rules, 1), orig, k + 1)

\* a clean-up that deletes an old-schema category key only when its list
\* has been emptied
DropEmptiedCategories(mod) ==
    LET keep(e) == e.cat \notin OldCategories \/ e.rules # <<>>
    IN  SelectSeq(mod, keep)

\* delete the old-schema category keys
DropOldCategories(mod) ==
    LET keep(e) == e.cat \notin OldCategories
    IN  SelectSeq(mod, keep)

\* migrate_manifest on a manifest [has |-> whether it has a modular_rules
\* key, mod |-> the dict]
migrate_manifest(m) ==
    IF ~m.has THEN m
    ELSE [has |-> TRUE, mod |-> DropOldCategories(MigrateFrom(m.mod, m.mod, 1))]

\* a dict as Python compares it: key order does not count
AsDict(mod) == [c \in Keys(mod) |-> mod[KeyIndex(mod, c)].rules]
SameManifest(a, b) == a.has = b.has /\ AsDict(a.mod) = AsDict(b.mod)

\* discover_learned_categories: the category directories of
\* LEARNED_SKILLS_DIR
LearnedCategories(r) == IF Src("learned", <<>>, CAT_C) \in r THEN <<CAT_C>> ELSE <<>>

\* what skills/learned holds after files of the registry were copied into
\* it: a new directory holds the registry's files, an existing one its own
\* files and the registry's
LearnedAfterCopy(ents, cat) ==
    IF LEARNED \notin DOMAIN ents THEN Src("learned", <<>>, cat)
    ELSE IF ents[LEARNED].o = "user"
    THEN [o |-> "merged", k |-> "learned", c |-> cat, n |-> <<>>]
    ELSE ents[LEARNED]

RECURSIVE CopyLearned(_, _, _, _)
CopyLearned(t, r, categories, i) ==
    IF i > Len(categories) THEN t
    ELSE CopyLearned(
             IF Src("learned", <<>>, categories[i]) \in r
             THEN SetEnts(t, "skills",
                          Put(t["skills"].ents, LEARNED,
                              LearnedAfterCopy(t["skills"].ents, categories[i])))
             ELSE t,
             r, categories, i + 1)

copy_learned_skills(t, r, categories) ==
    IF categories = <<>> THEN t ELSE CopyLearned(t, r, categories, 1)

(***************************************************************************)
(* cmd_init.                                                               *)
(***************************************************************************)
\* [items[i] for i in sorted(selected)]
RECURSIVE PickFrom(_, _, _)
PickFrom(items, selected, i) ==
    IF i > Len(items) THEN <<>>
    ELSE (IF i \in selected THEN <<items[i]>> ELSE <<>>) \o PickFrom(items, selected, i + 1)

Pick(items, selected) == PickFrom(items, selected, 1)
SubLists(items) == {Pick(items, sel) : sel \in SUBSET (1..Len(items))}

\* agent_files: the .md files of AGENTS_DIR, sorted
AgentFilesOf(r) ==
    LET keep(n) == Src("agents", <<>>, n) \in r /\ Suffix(n) = MD
    IN  SelectSeq(AgentFiles, keep)

\* selected_modular: a category is a key only when something of it is chosen
RECURSIVE ModularOf(_, _)
ModularOf(chosen, i) ==
    IF i > Len(ModularCategories) THEN <<>>
    ELSE LET c == ModularCategories[i]
         IN  (IF chosen[c] = <<>> THEN <<>> ELSE <<[cat |-> c, rules |-> chosen[c]]>>)
             \o ModularOf(chosen, i + 1)

\* chosen, per category, when only language rules are chosen
ChosenOf(langs) == [c \in Range(ModularCategories) |-> IF c = LANG THEN langs ELSE <<>>]
ChosenLangs == {ChosenOf(l) : l \in SubLists(TriedLangs)}

\* the selections one run of cmd_init can arrive at
RegSel(base, modular, agents, skills, learned, hooks) ==
    [base |-> base, modular |-> modular, agents |-> agents, skills |-> skills,
     learned |-> learned, hooks |-> hooks, plugins |-> <<>>, mcp_servers |-> <<>>]
NoRegSel == RegSel(<<>>, <<>>, <<>>, <<>>, <<>>, <<>>)

InitSelections(r) ==
    {RegSel(b, ModularOf(m, 1), a, s, l, h) :
        b \in SubLists(BASE_RULES),
        m \in ChosenLangs,
        a \in SubLists(AgentFilesOf(r)),
        s \in SubLists(SKILLS),
        l \in SubLists(LearnedCategories(r)),
        h \in SubLists(HOOK_SCRIPTS)}

SelectionFields == {"base", "modular", "agents", "skills", "learned", "hooks"}
FullSelection(r) ==
    RegSel(BASE_RULES, ModularOf(ChosenOf(TriedLangs), 1),
           AgentFilesOf(r), SKILLS, LearnedCategories(r), HOOK_SCRIPTS)

\* the members of InitSelections the model runs cmd_init with: everything,
\* everything but one kind, and nothing
TriedSelections(r) ==
    {FullSelection(r), NoRegSel}
        \cup {[FullSelection(r) EXCEPT ![f] = <<>>] : f \in SelectionFields}

\* cmd_init, "Generate": the copies, in the order of the code
Generate(t, r, sel) ==
    LET t1 == copy_rules(t, r, sel.base, sel.modular)
        t2 == IF sel.agents # <<>> THEN copy_agents(t1, r, sel.agents) ELSE t1
        t3 == copy_commands(t2, r)
        t4 == IF sel.skills # <<>> THEN copy_skills(t3, r, sel.skills) ELSE t3
        t5 == IF sel.learned # <<>> THEN copy_learned_skills(t4, r, sel.learned) ELSE t4
    IN  copy_hooks(t5, r, sel.hooks)

\* the dict cmd_init hands to save_manifest: the selections of the run; it
\* has no private_sources key
SavedManifest(sel) == [written |-> TRUE, sel |-> sel]
NoManifest == [written |-> FALSE, sel |-> NoRegSel]

(***************************************************************************)
(* The private sources of the model: two source directories and two        *)
(* registered prefixes, "p" and "p-q" (both match the prefix pattern).     *)
(***************************************************************************)
PFX_P == <<"p">>
PFX_PQ == <<"p", "-", "q">>
Path1 == <<"1">>
Path2 == <<"2">>
Paths == {Path1, Path2}
R_D == <<"l", "/", "d">> \o MD
R_E == <<"l", "/", "e">> \o MD
R_X == <<"l", "/", "x">> \o MD
D_MD == <<"d">> \o MD
D_SH == <<"d">> \o SH
D_DIR == <<"d">>
LOCAL_DIR == <<"l", "o", "c", "a", "l">>
E_DIR == <<"e">>
O_MD == <<"o">> \o MD

\* what the two source directories hold; the second one may not resolve
PrivateSources(resolves2) ==
    [path \in Paths |->
        IF path = Path1
        THEN [resolves |-> TRUE,
              has |-> {PSrc(Path1, "rules", R_D), PSrc(Path1, "commands", D_MD),
                       PSrc(Path1, "skills", D_DIR), PSrc(Path1, "skills", LOCAL_DIR),
                       PSrc(Path1, "agents", D_MD),
                       PSrc(Path1, "hooks", D_SH)}]
        ELSE [resolves |-> resolves2,
              has |-> {PSrc(Path2, "rules", R_E), PSrc(Path2, "skills", E_DIR)}]]

\* per-category selections of a private source
SelNone == [d \in Dirs |-> <<>>]
SelD == [d \in Dirs |->
            CASE d = "rules" -> <<R_D, R_X>>
              [] d = "commands" -> <<D_MD>>
              [] d = "skills" -> <<D_DIR>>
              [] d = "agents" -> <<D_MD>>
              [] OTHER -> <<D_SH>>]
SelE == [d \in Dirs |->
            CASE d = "rules" -> <<R_E>>
              [] d = "skills" -> <<E_DIR>>
              [] OTHER -> <<>>]
SelLocal == [d \in Dirs |-> IF d = "skills" THEN <<LOCAL_DIR>> ELSE <<>>]

\* a PrivateSourceRef of the manifest
Ref(path, prefix, sel) == [path |-> path, prefix |-> prefix, sel |-> sel]
PrefixesOf(srcs) == {srcs[i].prefix : i \in 1..Len(srcs)}

(***************************************************************************)
(* The header block of CLAUDE.md.  A document is the sequence of its       *)
(* characters; str.find, str.strip and slicing are computed as Python      *)
(* computes them, with indices counted from 0.                             *)
(***************************************************************************)

CLAUDE_FOUNDRY_MARKER_START ==
    <<"<", "!", "-", "-", " ", "c", "l", "a", "u", "d", "e", "-", "f", "o",
      "u", "n", "d", "r", "y", " ", "-", "-", ">">>

CLAUDE_FOUNDRY_MARKER_END ==
    <<"<", "!", "-", "-", " ", "/", "c", "l", "a", "u", "d", "e", "-", "f",
      "o", "u", "n", "d", "r", "y", " ", "-", "-", ">">>

\* content[i:i+len(pat)] == pat
OccursAt(content, pat, i) ==
    /\ i >= 0 /\ i + Len(pat) <= Len(content)
    /\ SubSeq(content, i + 1, i + Len(pat)) = pat

\* pat occurs in doc
Contains(doc, pat) == \E i \in 0..Len(doc) : OccursAt(doc, pat, i)

\* content.find(pat): the index of the first occurrence, -1 when there is none
Find(content, pat) ==
    LET found == {i \in 0..(Len(content) - Len(pat)) :
                     /\ pat # <<>> => content[i + 1] = pat[1]
                     /\ OccursAt(content, pat, i)}
    IN  IF found = {} THEN -1 ELSE CHOOSE i \in found : \A j \in found : i <= j

\* content[:i] and content[i:]
UpTo(content, i) == SubSeq(content, 1, i)
From(content, i) == SubSeq(content, i + 1, Len(content))

\* the characters str.strip() removes: those of str.isspace() (the ones
\* that cannot be written are named by their code point)
Whitespace ==
    {" ", "\n", "\t", "\r", "\f", "U+000B", "U+001C", "U+001D", "U+001E", "U+001F",
     "U+0085", "U+00A0", "U+1680", "U+2000", "U+2001", "U+2002", "U+2003", "U+2004",
     "U+2005", "U+2006", "U+2007", "U+2008", "U+2009", "U+200A", "U+2028", "U+2029",
     "U+202F", "U+205F", "U+3000"}

RECURSIVE LStrip(_)
LStrip(s) == IF s # <<>> /\ Head(s) \in Whitespace THEN LStrip(Tail(s)) ELSE s

RECURSIVE RStrip(_)
RStrip(s) ==
    IF s # <<>> /\ s[Len(s)] \in Whitespace THEN RStrip(UpTo(s, Len(s) - 1)) ELSE s

\* s.strip()
Strip(s) == RStrip(LStrip(s))

\* a test that already takes the marker without its closing delimiter
has_marker_opening(content) ==
    Find(content, UpTo(CLAUDE_FOUNDRY_MARKER_START, Len(CLAUDE_FOUNDRY_MARKER_START) - 4)) # -1

has_claude_foundry_header(content) ==
    Find(content, CLAUDE_FOUNDRY_MARKER_START) # -1

\* a splice that leaves the new header as it was given
update_unstripped(content, new_header) ==
    LET start_idx == Find(content, CLAUDE_FOUNDRY_MARKER_START)
        end_idx == Find(content, CLAUDE_FOUNDRY_MARKER_END)
    IN  IF start_idx = -1 \/ end_idx = -1 THEN content
        ELSE UpTo(content, start_idx) \o new_header
             \o From(content, end_idx + Len(CLAUDE_FOUNDRY_MARKER_END))

update_claude_foundry_header(content, new_header) ==
    LET start_idx == Find(content, CLAUDE_FOUNDRY_MARKER_START)
        end_idx == Find(content, CLAUDE_FOUNDRY_MARKER_END)
    IN  IF start_idx = -1 \/ end_idx = -1 THEN content
        ELSE UpTo(content, start_idx) \o Strip(new_header)
             \o From(content, end_idx + Len(CLAUDE_FOUNDRY_MARKER_END))

prepend_claude_foundry_header(content, header) ==
    header \o <<"\n">> \o content


(***************************************************************************)
(* generate_claude_foundry_header.  "U+2014" (the dash between a rule and  *)
(* its description) and "U+0060" (the quote around a rule) each stand for  *)
(* the one character of that code point.                                   *)
(***************************************************************************)

\* the shape of CLAUDE_FOUNDRY_HEADER_TEMPLATE: the start marker, the
\* sections, the end marker and a final newline
Rendered(body) ==
    CLAUDE_FOUNDRY_MARKER_START \o <<"\n">> \o body \o <<"\n">>
    \o CLAUDE_FOUNDRY_MARKER_END \o <<"\n">>

IsRendered(h) ==
    /\ OccursAt(h, CLAUDE_FOUNDRY_MARKER_START, 0)
    /\ OccursAt(h, CLAUDE_FOUNDRY_MARKER_END \o <<"\n">>,
                Len(h) - Len(CLAUDE_FOUNDRY_MARKER_END) - 1)

\* CLAUDE_FOUNDRY_HEADER_TEMPLATE from the line after the start marker to {rules_list}
TemplateRules ==
    <<"#", "#", " ", "R", "u", "l", "e", "s", "\n", "\n", "R", "e", "a",
      "d", " ", "r", "u", "l", "e", "s", " ", "i", "n", " ", "U+0060", ".", "c",
      "l", "a", "u", "d", "e", "/", "r", "u", "l", "e", "s", "/", "U+0060", " ",
      "b", "e", "f", "o", "r", "e", " ", "m", "a", "k", "i", "n", "g", " ",
      "c", "h", "a", "n", "g", "e", "s", ":", "\n">>

\* ... between {rules_list} and {env_commands}
TemplateEnvironment ==
    <<"\n", "\n", "#", "#", " ", "E", "n", "v", "i", "r", "o", "n", "m",
      "e", "n", "t", "\n", "\n", "U+0060", "U+0060", "U+0060", "b", "a", "s", "h", "\n">>

\* ... between {env_commands} and the line of the end marker
TemplateRest ==
    <<"\n", "U+0060", "U+0060", "U+0060", "\n", "\n", "#", "#", " ", "A", "r", "c", "h",
      "i", "t", "e", "c", "t", "u", "r", "e", "\n", "\n", "R", "e", "a",
      "d", " ", "U+0060", "c", "o", "d", "e", "m", "a", "p", "s", "/", "I", "N",
      "D", "E", "X", ".", "m", "d", "U+0060", " ", "b", "e", "f", "o", "r", "e",
      " ", "m", "o", "d", "i", "f", "y", "i", "n", "g", " ", "u", "n", "f",
      "a", "m", "i", "l", "i", "a", "r", " ", "m", "o", "d", "u", "l", "e",
      "s", ".", "\n", "R", "u", "n", " ", "U+0060", "/", "u", "p", "d", "a",
      "t", "e", "-", "c", "o", "d", "e", "m", "a", "p", "s", "U+0060", " ", "a",
      "f", "t", "e", "r", " ", "s", "i", "g", "n", "i", "f", "i", "c", "a",
      "n", "t", " ", "s", "t", "r", "u", "c", "t", "u", "r", "a", "l", " ",
      "c", "h", "a", "n", "g", "e", "s", ".", "\n", "\n", "#", "#", " ",
      "D", "o", "c", "u", "m", "e", "n", "t", "a", "t", "i", "o", "n",
      "\n", "\n", "R", "e", "a", "d", " ", "U+0060", "d", "o", "c", "s", "/",
      "U+0060", " ", "f", "o", "r", " ", "d", "e", "t", "a", "i", "l", "e", "d",
      " ", "p", "r", "o", "j", "e", "c", "t", " ", "d", "o", "c", "u", "m",
      "e", "n", "t", "a", "t", "i", "o", "n", " ", "(", "i", "f", " ", "i",
      "t", " ", "e", "x", "i", "s", "t", "s", ")", ".", "\n", "-", " ",
      "U+0060", "d", "o", "c", "s", "/", "A", "R", "C", "H", "I", "T", "E", "C",
      "T", "U", "R", "E", ".", "m", "d", "U+0060", " ", "U+2014", " ", "d", "e",
      "s", "i", "g", "n", " ", "d", "e", "c", "i", "s", "i", "o", "n", "s",
      " ", "a", "n", "d", " ", "p", "a", "t", "t", "e", "r", "n", "s",
      "\n", "-", " ", "U+0060", "d", "o", "c", "s", "/", "D", "E", "V", "E",
      "L", "O", "P", "M", "E", "N", "T", ".", "m", "d", "U+0060", " ", "U+2014",
      " ", "s", "e", "t", "u", "p", " ", "a", "n", "d", " ", "w", "o", "r",
      "k", "f", "l", "o", "w", " ", "g", "u", "i", "d", "e", "s">>

NoneDeployed ==
    <<"-", " ", "(", "n", "o", "n", "e", " ", "d", "e", "p", "l", "o", "y",
      "e", "d", ")">>

NoCommands ==
    <<"#", " ", "N", "o", " ", "l", "a", "n", "g", "u", "a", "g", "e", "-",
      "s", "p", "e", "c", "i", "f", "i", "c", " ", "c", "o", "m", "m", "a",
      "n", "d", "s", " ", "c", "o", "n", "f", "i", "g", "u", "r", "e", "d">>

SetupComment ==
    <<" ", " ", "#", " ", "S", "e", "t", "u", "p">>

TestsComment ==
    <<" ", " ", "#", " ", "T", "e", "s", "t", "s">>

\* the characters of rule names in the order of their code points
CodePoints ==
    <<"-", ".", "0", "1", "2", "3", "4", "5", "6", "7", "8", "9",
      "a", "b", "c", "d", "e", "f", "g", "h", "i", "j", "k", "l", "m",
      "n", "o", "p", "q", "r", "s", "t", "u", "v", "w", "x", "y", "z">>

Ord(ch) == CHOOSE i \in 1..Len(CodePoints) : CodePoints[i] = ch

\* a < b as Python compares str: by code point, a proper prefix first
RECURSIVE StrLess(_, _)
StrLess(a, b) ==
    IF b = <<>> THEN FALSE
    ELSE IF a = <<>> THEN TRUE
    ELSE IF Head(a) = Head(b) THEN StrLess(Tail(a), Tail(b))
    ELSE Ord(Head(a)) < Ord(Head(b))

\* x placed into the sorted list s, after the items that are not greater
RECURSIVE InsertSorted(_, _)
InsertSorted(s, x) ==
    IF s = <<>> THEN <<x>>
    ELSE IF StrLess(x, Head(s)) THEN <<x>> \o s
    ELSE <<Head(s)>> \o InsertSorted(Tail(s), x)

\* sorted(s) of a list of str
RECURSIVE Sorted(_)
Sorted(s) ==
    IF s = <<>> THEN <<>>
    ELSE InsertSorted(Sorted(UpTo(s, Len(s) - 1)), s[Len(s)])

\* sorted(S) of a set of str
RECURSIVE SortedSet(_)
SortedSet(S) ==
    IF S = {} THEN <<>>
    ELSE LET least == CHOOSE x \in S : \A y \in S \ {x} : StrLess(x, y)
         IN  <<least>> \o SortedSet(S \ {least})

\* s.replace(old, new)
RECURSIVE Replace(_, _, _)
Replace(s, old, new) ==
    IF s = <<>> THEN <<>>
    ELSE IF OccursAt(s, old, 0) THEN new \o Replace(From(s, Len(old)), old, new)
    ELSE <<Head(s)>> \o Replace(Tail(s), old, new)

UpperCase == <<"A", "B", "C", "D", "E", "F", "G", "H", "I", "J", "K", "L", "M",
               "N", "O", "P", "Q", "R", "S", "T", "U", "V", "W", "X", "Y", "Z">>

\* s.title(): a letter that follows no letter is written in upper case
Title(s) ==
    [i \in 1..Len(s) |->
        IF s[i] \in Lower /\ (i = 1 \/ s[i - 1] \notin Lower)
        THEN UpperCase[Ord(s[i]) - 12]
        ELSE s[i]]

\* tooling_rules: the keys of the lang and platform categories of
\* MODULAR_RULES
ToolingRules == Range(MODULAR_RULES[LANG]) \cup Range(MODULAR_RULES[W_PLATFORM])

\* the dict rule_descriptions of generate_claude_foundry_header
RuleDescriptions ==
    (PYTHON_MD :>
        <<"P", "y", "t", "h", "o", "n", " ", "t", "o", "o", "l", "i", "n",
          "g", " ", "(", "u", "v", ",", " ", "p", "y", "t", "e", "s", "t",
          ",", " ", "r", "u", "f", "f", ")">>)
    @@ (RUST_MD :>
        <<"R", "u", "s", "t", " ", "t", "o", "o", "l", "i", "n", "g", " ",
          "(", "c", "a", "r", "g", "o", ",", " ", "c", "l", "i", "p", "p",
          "y", ")">>)
    @@ (GO_MD :>
        <<"G", "o", " ", "t", "o", "o", "l", "i", "n", "g", " ", "(", "g",
          "o", " ", "m", "o", "d", ",", " ", "g", "o", "l", "a", "n", "g",
          "c", "i", "-", "l", "i", "n", "t", ")">>)
    @@ (NODEJS_MD :>
        <<"N", "o", "d", "e", ".", "j", "s", " ", "t", "o", "o", "l", "i",
          "n", "g", " ", "(", "n", "p", "m", ")">>)
    @@ (REACT_MD :>
        <<"R", "e", "a", "c", "t", "/", "T", "y", "p", "e", "S", "c", "r",
          "i", "p", "t", " ", "t", "o", "o", "l", "i", "n", "g">>)
    @@ (C_MD :>
        <<"C", " ", "t", "o", "o", "l", "i", "n", "g", " ", "(", "C", "M",
          "a", "k", "e", ",", " ", "c", "l", "a", "n", "g", ")">>)
    @@ (CPP_MD :>
        <<"C", "+", "+", " ", "t", "o", "o", "l", "i", "n", "g", " ", "(",
          "C", "M", "a", "k", "e", ",", " ", "c", "l", "a", "n", "g", ")">>)
    @@ (MATLAB_MD :>
        <<"M", "A", "T", "L", "A", "B", " ", "t", "o", "o", "l", "i", "n",
          "g">>)
    @@ (GITHUB_MD :>
        <<"G", "i", "t", "H", "u", "b", " ", "w", "o", "r", "k", "f", "l",
          "o", "w", " ", "(", "g", "h", " ", "C", "L", "I", ",", " ", "P",
          "R", " ", "c", "o", "n", "v", "e", "n", "t", "i", "o", "n", "s",
          ")">>)
    @@ (CODING_STYLE_MD :>
        <<"C", "o", "d", "e", " ", "s", "t", "y", "l", "e", " ", "g", "u",
          "i", "d", "e", "l", "i", "n", "e", "s">>)
    @@ (GIT_WORKFLOW_MD :>
        <<"G", "i", "t", " ", "w", "o", "r", "k", "f", "l", "o", "w", " ",
          "a", "n", "d", " ", "c", "o", "m", "m", "i", "t", " ", "c", "o",
          "n", "v", "e", "n", "t", "i", "o", "n", "s">>)
    @@ (SECURITY_MD :>
        <<"S", "e", "c", "u", "r", "i", "t", "y", " ", "c", "h", "e", "c",
          "k", "s", " ", "a", "n", "d", " ", "p", "r", "a", "c", "t", "i",
          "c", "e", "s">>)
    @@ (TESTING_MD :>
        <<"T", "e", "s", "t", "i", "n", "g", " ", "r", "e", "q", "u", "i",
          "r", "e", "m", "e", "n", "t", "s", " ", "(", "T", "D", "D", ",",
          " ", "8", "0", "%", " ", "c", "o", "v", "e", "r", "a", "g", "e",
          ")">>)
    @@ (ARCHITECTURE_MD :>
        <<"A", "r", "c", "h", "i", "t", "e", "c", "t", "u", "r", "e", " ",
          "p", "r", "i", "n", "c", "i", "p", "l", "e", "s">>)
    @@ (PERFORMANCE_MD :>
        <<"P", "e", "r", "f", "o", "r", "m", "a", "n", "c", "e", " ", "a",
          "n", "d", " ", "m", "o", "d", "e", "l", " ", "s", "e", "l", "e",
          "c", "t", "i", "o", "n">>)
    @@ (AGENTS_MD :>
        <<"A", "g", "e", "n", "t", " ", "o", "r", "c", "h", "e", "s", "t",
          "r", "a", "t", "i", "o", "n">>)
    @@ (CODEMAPS_MD :>
        <<"C", "o", "d", "e", "m", "a", "p", " ", "s", "y", "s", "t", "e",
          "m">>)
    @@ (HOOKS_MD :>
        <<"H", "o", "o", "k", "s", " ", "s", "y", "s", "t", "e", "m">>)

\* desc = rule_descriptions.get(rule, rule.replace(".md", "").replace("-", " ").title())
rule_descriptions(rule) ==
    IF rule \in DOMAIN RuleDescriptions THEN RuleDescriptions[rule]
    ELSE Title(Replace(Replace(rule, MD, <<>>), HY, <<" ">>))

\* the "setup" and "test" entries of ENVIRONMENT_SNIPPETS, the two the header
\* reads
ENVIRONMENT_SNIPPETS ==
    (PYTHON_MD :>
        [setup |->
            <<"u", "v", " ", "v", "e", "n", "v", " ", "&", "&", " ", "u",
              "v", " ", "p", "i", "p", " ", "i", "n", "s", "t", "a", "l",
              "l", " ", "-", "e", " ", ".", "[", "d", "e", "v", "]">>,
         test |->
            <<"u", "v", " ", "r", "u", "n", " ", "p", "y", "t", "e", "s",
              "t">>])
    @@ (RUST_MD :>
        [setup |->
            <<"c", "a", "r", "g", "o", " ", "b", "u", "i", "l", "d">>,
         test |->
            <<"c", "a", "r", "g", "o", " ", "t", "e", "s", "t">>])
    @@ (GO_MD :>
        [setup |->
            <<"g", "o", " ", "m", "o", "d", " ", "d", "o", "w", "n", "l",
              "o", "a", "d">>,
         test |->
            <<"g", "o", " ", "t", "e", "s", "t", " ", ".", "/", ".", ".",
              ".">>])
    @@ (NODEJS_MD :>
        [setup |->
            <<"n", "p", "m", " ", "i", "n", "s", "t", "a", "l", "l">>,
         test |->
            <<"n", "p", "m", " ", "t", "e", "s", "t">>])
    @@ (REACT_MD :>
        [setup |->
            <<"n", "p", "m", " ", "i", "n", "s", "t", "a", "l", "l">>,
         test |->
            <<"n", "p", "m", " ", "t", "e", "s", "t">>])
    @@ (C_MD :>
        [setup |->
            <<"m", "k", "d", "i", "r", " ", "-", "p", " ", "b", "u", "i",
              "l", "d", " ", "&", "&", " ", "c", "d", " ", "b", "u", "i",
              "l", "d", " ", "&", "&", " ", "c", "m", "a", "k", "e", " ",
              ".", ".">>,
         test |->
            <<"c", "t", "e", "s", "t", " ", "-", "-", "t", "e", "s", "t",
              "-", "d", "i", "r", " ", "b", "u", "i", "l", "d">>])
    @@ (CPP_MD :>
        [setup |->
            <<"m", "k", "d", "i", "r", " ", "-", "p", " ", "b", "u", "i",
              "l", "d", " ", "&", "&", " ", "c", "d", " ", "b", "u", "i",
              "l", "d", " ", "&", "&", " ", "c", "m", "a", "k", "e", " ",
              ".", ".">>,
         test |->
            <<"c", "t", "e", "s", "t", " ", "-", "-", "t", "e", "s", "t",
              "-", "d", "i", "r", " ", "b", "u", "i", "l", "d">>])

\* the lines one selected language adds to env_lines
EnvLines(lang) ==
    IF lang \in DOMAIN ENVIRONMENT_SNIPPETS
    THEN <<ENVIRONMENT_SNIPPETS[lang].setup \o SetupComment,
           ENVIRONMENT_SNIPPETS[lang].test \o TestsComment>>
    ELSE <<>>

RuleLine(rule) ==
    <<"-", " ", "U+0060">> \o rule \o <<"U+0060", " ", "U+2014", " ">> \o rule_descriptions(rule)

\* "\n".join(lines)
RECURSIVE JoinLines(_)
JoinLines(lines) ==
    IF lines = <<>> THEN <<>>
    ELSE IF Len(lines) = 1 THEN lines[1]
    ELSE lines[1] \o <<"\n">> \o JoinLines(Tail(lines))

RECURSIVE Flatten(_)
Flatten(ss) == IF ss = <<>> THEN <<>> ELSE Head(ss) \o Flatten(Tail(ss))

Matching(s, keep) == SelectSeq(s, LAMBDA x : x \in keep)
NotMatching(s, drop) == SelectSeq(s, LAMBDA x : x \notin drop)

\* the rules in the order they were deployed
OrderedAsGiven(deployed_rules) == deployed_rules

\* tooling_first + other_rules
OrderedRules(deployed_rules) ==
    Sorted(Matching(deployed_rules, ToolingRules))
    \o Sorted(NotMatching(deployed_rules, ToolingRules))

generate_claude_foundry_header(deployed_rules, selected_langs) ==
    LET ordered_rules == OrderedRules(deployed_rules)
        rules_lines == [i \in 1..Len(ordered_rules) |-> RuleLine(ordered_rules[i])]
        rules_list == IF rules_lines # <<>> THEN JoinLines(rules_lines) ELSE NoneDeployed
        langs == SortedSet(selected_langs)
        env_lines == Flatten([i \in 1..Len(langs) |-> EnvLines(langs[i])])
        env_commands == IF env_lines # <<>> THEN JoinLines(env_lines) ELSE NoCommands
    IN  Rendered(TemplateRules \o rules_list \o TemplateEnvironment
                 \o env_commands \o TemplateRest)

(***************************************************************************)
(* The state machine.  `last` records the operation that ran last, with    *)
(* its inputs and what it returned; `prev` is the tree it started from.    *)
(***************************************************************************)
Op(name, reg, prefix, path, sel, rep, res, ok) ==
    [op |-> name, pfx |-> PrefixesOf(sources), refs |-> sources, reg |-> reg, prefix |-> prefix,
     path |-> path, sel |-> sel, rep |-> rep, res |-> res, ok |-> ok]
RegOp(name, reg) == Op(name, reg, <<>>, <<>>, SelNone, EmptyReport, <<>>, TRUE)

\* the entries a user (or an older run) may have left in the tree
UserNames(d) ==
    CASE d = "agents" -> {Z_MD, PFX_P \o HY \o O_MD}
      [] d = "commands" -> {PFX_P \o HY \o O_MD}
      [] d = "skills" -> {<<"z">>, LEARNED}
      [] OTHER -> {}

\* the registry sources that may be missing under REPO_ROOT: those whose
\* absence the copy routines test for before they delete or rename
MayBeMissing ==
    {Src("rules", <<>>, T_MD), Src("lib", LANG, PYTHON_MD), Src("agents", <<>>, G_MD),
     Src("skills", <<>>, SKILL_S), Src("commandsdir", <<>>, <<>>)}
RepoStates ==
    {RepoAll \ m : m \in {x \in SUBSET MayBeMissing : Cardinality(x) <= MaxMissing}}

NoFile == [exists |-> FALSE, text |-> <<>>]
File(text) == [exists |-> TRUE, text |-> text]
NoRender == [rules |-> <<>>, langs |-> {}]
\* cmd_init is not running
NoCall == [pc |-> "idle", sel |-> NoRegSel, content |-> <<>>, edits |-> 0]
NoMode == [interactive |-> FALSE, force |-> FALSE, answer |-> "", choice |-> ""]

\* setup-manifest.json is what the variable manifest says
AsSaved == [kind |-> "saved"]

\* the versions read_version can return, and a project without VERSION
V_0_9_0 == <<"0", ".", "9", ".", "0">>
V_0_10_0 == <<"0", ".", "1", "0", ".", "0">>
NoVersion == [repo |-> V_0_9_0, project |-> NoFile]

\* toggle_menu is not being called; cmd_update_all is not running
NoMenu == [pc |-> "idle", required_one |-> FALSE, arg |-> {}, given |-> {},
           lines |-> 0, returned |-> {}]
NoResults == [updated |-> <<>>, interactive |-> <<>>, failed |-> <<>>, skipped |-> <<>>]
NoUpdateAll == [pc |-> "idle", force |-> FALSE, projects |-> <<>>, selected |-> {},
                cur |-> 0, order |-> <<>>, outcomes |-> <<>>, results |-> NoResults]

\* what a run of cmd_init did to CLAUDE.md (op); the files as the call found
\* them; the CLAUDE.md the run read last (read); how often CLAUDE.md was
\* written by someone else during the run (edits)
NoMdOp == [op |-> "none", before |-> NoFile, old |-> NoFile, raw |-> AsSaved,
           saved |-> [written |-> FALSE], version |-> NoFile, read |-> NoFile,
           edits |-> 0]
MdOp(op) == [op |-> op, before |-> claude_md, old |-> claude_old, raw |-> mraw,
             saved |-> manifest, version |-> ver.project, read |-> claude_md,
             edits |-> 0]

\* nothing fails and the manifest file is as it was saved
\* an operation other than cmd_init: CLAUDE.md is left alone, nothing is
\* rendered, and the record of what the operation did to CLAUDE.md is empty
NoDocOp ==
    /\ ci.pc = "idle"
    /\ hdr' = <<>> /\ rin' = NoRender /\ mode' = NoMode /\ mdop' = NoMdOp
    /\ UNCHANGED <<docvars, ver, menu, ua, detected, ci>>

NoFaults == mraw = AsSaved /\ failing = {} /\ exc = "none"

\* no CLAUDE.md yet and cmd_init not yet called
DocIdle ==
    /\ claude_md = NoFile /\ claude_old = NoFile
    /\ hdr = <<>> /\ rin = NoRender /\ mode = NoMode /\ mdop = NoMdOp
    /\ NoFaults
    /\ ver = NoVersion /\ menu = NoMenu /\ ua = NoUpdateAll /\ detected = {} /\ ci = NoCall

Idle ==
    /\ cand = <<>> /\ verdict = "none"
    /\ mrules = [has |-> FALSE, mod |-> <<>>] /\ mout = [has |-> FALSE, mod |-> <<>>]
    /\ DocIdle

Init ==
    /\ tree = EmptyTree
    /\ repo \in RepoStates
    /\ psrc = PrivateSources(TRUE)
    /\ sources = <<Ref(Path1, PFX_P, SelD)>>
    /\ manifest = SavedManifest(NoRegSel)
    /\ prev = tree
    /\ nuser = 0
    /\ nops = 0
    /\ last = [op |-> "init", pfx |-> {}, refs |-> <<>>, reg |-> NoRegSel, prefix |-> <<>>,
               path |-> <<>>, sel |-> SelNone, rep |-> EmptyReport, res |-> <<>>,
               ok |-> TRUE]
    /\ Idle

\* an entry is put into the starting tree
UserAdd(d, n) ==
    /\ last.op = "init"
    /\ nuser < MaxUser
    /\ n \notin Listing(tree, d)
    /\ tree' = SetEnts(tree, d, Put(tree[d].ents, n, UserContent))
    /\ prev' = tree'
    /\ nuser' = nuser + 1
    /\ UNCHANGED <<repo, psrc, sources, manifest, last, nops, cand, verdict, mrules, mout>> /\ NoDocOp

Ran(t, op) ==
    /\ nops < MaxOps
    /\ nops' = nops + 1
    /\ tree' = t
    /\ prev' = tree
    /\ last' = op

CopyRules(base, modular) ==
    /\ Ran(copy_rules(tree, repo, base, modular),
           RegOp("copy_rules", RegSel(base, modular, <<>>, <<>>, <<>>, <<>>)))
    /\ UNCHANGED <<repo, psrc, sources, manifest, nuser, cand, verdict, mrules, mout>> /\ NoDocOp

CopyAgents(agents) ==
    /\ Ran(copy_agents(tree, repo, agents),
           RegOp("copy_agents", RegSel(<<>>, <<>>, agents, <<>>, <<>>, <<>>)))
    /\ UNCHANGED <<repo, psrc, sources, manifest, nuser, cand, verdict, mrules, mout>> /\ NoDocOp

CopyCommands ==
    /\ Ran(copy_commands(tree, repo), RegOp("copy_commands", NoRegSel))
    /\ UNCHANGED <<repo, psrc, sources, manifest, nuser, cand, verdict, mrules, mout>> /\ NoDocOp

CopySkills(skills) ==
    /\ Ran(copy_skills(tree, repo, skills),
           RegOp("copy_skills", RegSel(<<>>, <<>>, <<>>, skills, <<>>, <<>>)))
    /\ UNCHANGED <<repo, psrc, sources, manifest, nuser, cand, verdict, mrules, mout>> /\ NoDocOp

CopyHooks(hooks) ==
    /\ Ran(copy_hooks(tree, repo, hooks),
           RegOp("copy_hooks", RegSel(<<>>, <<>>, <<>>, <<>>, <<>>, hooks)))
    /\ UNCHANGED <<repo, psrc, sources, manifest, nuser, cand, verdict, mrules, mout>> /\ NoDocOp

(***************************************************************************)
(* setup-manifest.json as cmd_init reads it.  A JSON value is a record     *)
(* with its type t; None is the JSON null.                                 *)
(***************************************************************************)
JNull == [t |-> "null"]
JBool(b) == [t |-> "bool", b |-> b]
JNum(n) == [t |-> "num", n |-> n]
JStr(str) == [t |-> "str", s |-> str]
JList(items) == [t |-> "list", l |-> items]
JObj(fields) == [t |-> "obj", o |-> fields]
\* the dict save_manifest wrote, read back
JSaved == [t |-> "saved"]

Returned(v) == [raised |-> "none", value |-> v]
Raised(e) == [raised |-> e, value |-> JNull]

\* load_manifest: None when the file is absent, is not JSON or cannot be
\* read (a directory or a file without permissions, "unreadable"; a file
\* that may be written and not read, "writeonly"); the parsed value
\* otherwise.  What json.loads and read_text raise besides JSONDecodeError
\* and OSError escapes: bytes that are not UTF-8 ("undecodable"), brackets
\* nested deeper than the recursion limit ("nested"), an integer literal of
\* more than 4300 digits ("hugeint")
load_manifest(raw, saved) ==
    CASE raw.kind = "saved" -> Returned(IF saved.written THEN JSaved ELSE JNull)
      [] raw.kind = "absent" -> Returned(JNull)
      [] raw.kind \in {"invalid", "unreadable", "writeonly"} -> Returned(JNull)
      [] raw.kind = "undecodable" -> Raised("UnicodeDecodeError")
      [] raw.kind = "nested" -> Raised("RecursionError")
      [] raw.kind = "hugeint" -> Raised("ValueError")
      [] raw.kind = "json" -> Returned(raw.value)

\* bool(v)
Truthy(v) ==
    CASE v.t = "null" -> FALSE
      [] v.t = "bool" -> v.b
      [] v.t = "num" -> v.n # 0
      [] v.t = "str" -> v.s # <<>>
      [] v.t = "list" -> v.l # <<>>
      [] v.t = "obj" -> DOMAIN v.o # {}
      [] v.t = "saved" -> TRUE

\* v.get(key, default)
Get(v, key, default) ==
    CASE v.t = "saved" -> Returned(JSaved)
      [] v.t = "obj" -> Returned(IF key \in DOMAIN v.o THEN v.o[key] ELSE default)
      [] OTHER -> Raised("AttributeError")

\* {... for item in registry_items if item in saved}: what evaluating
\* "item in saved" raises
Membership(registry_items, saved) ==
    IF registry_items = <<>> THEN "none"
    ELSE IF saved.t \in {"null", "bool", "num"} THEN "TypeError"
    ELSE "none"

\* cmd_init._manifest_indices: the exception it raises, "none" if it returns
\* (sub is "" when manifest_sub is not given)
manifest_indices(loaded, registry_items, manifest_key, manifest_sub) ==
    IF ~Truthy(loaded) THEN "none"
    ELSE LET top == Get(loaded, manifest_key,
                        IF manifest_sub = "" THEN JList(<<>>) ELSE JObj(<<>>))
             saved == IF top.raised # "none" \/ manifest_sub = "" THEN top
                      ELSE Get(top.value, manifest_sub, JList(<<>>))
         IN  IF saved.raised # "none" THEN saved.raised
             ELSE Membership(registry_items, saved.value)

FirstRaised(outcomes) ==
    IF \A i \in 1..Len(outcomes) : outcomes[i] = "none" THEN "none"
    ELSE outcomes[CHOOSE i \in 1..Len(outcomes) :
                      outcomes[i] # "none" /\ \A j \in 1..(i - 1) : outcomes[j] = "none"]

\* cmd_init, sections "Load manifest" to 8: the exception raised while the
\* defaults are taken from the manifest, "none" if there is none.  A
\* category without rules is passed over; all_plugins is never empty.
DefaultsRaise(loaded, r) ==
    IF loaded.raised # "none" THEN loaded.raised
    ELSE LET categories == SelectSeq(ModularCategories,
                                     LAMBDA c : MODULAR_RULES[c] # <<>>)
         IN  FirstRaised(
                 <<manifest_indices(loaded.value, BASE_RULES, "base_rules", "")>>
                 \o [i \in 1..Len(categories) |->
                        manifest_indices(loaded.value, MODULAR_RULES[categories[i]],
                                         "modular_rules", categories[i])]
                 \o <<manifest_indices(loaded.value, HOOK_SCRIPTS, "hooks", ""),
                      manifest_indices(loaded.value, AgentFilesOf(r), "agents", ""),
                      manifest_indices(loaded.value, SKILLS, "skills", ""),
                      manifest_indices(loaded.value, LearnedCategories(r),
                                       "learned_categories", ""),
                      manifest_indices(loaded.value, WORKFLOW_PLUGINS, "plugins", ""),
                      manifest_indices(loaded.value, McpNames(r), "mcp_servers", "")>>)

\* cmd_init, sections "Load manifest" to 2: the exception raised before the
\* first menu of an interactive run
BaseRaise(loaded) ==
    IF loaded.raised # "none" THEN loaded.raised
    ELSE manifest_indices(loaded.value, BASE_RULES, "base_rules", "")

\* save_manifest: dest.write_text raises when setup-manifest.json is a
\* directory or a file without permissions, "none" otherwise
save_manifest(raw) == IF raw.kind = "unreadable" THEN "OSError" ELSE "none"

\* copy_rules when some destinations cannot be written: shutil.copy2 raises
\* at the first of them, with the earlier rules copied and the later ones
\* not attempted
AsItems(modular) ==
    Flatten([i \in 1..Len(modular) |->
                [j \in 1..Len(modular[i].rules) |->
                    [cat |-> modular[i].cat, rules |-> <<modular[i].rules[j]>>]]])

Least(S) == CHOOSE x \in S : \A y \in S : x <= y

copy_rules_writing(t, r, base, modular, unwritable) ==
    LET items == AsItems(modular)
        before(j) == copy_rules(t, r, base, UpTo(items, j - 1))
        baseFail == {k \in 1..Len(base) :
                        Src("rules", <<>>, base[k]) \in r /\ base[k] \in unwritable}
        modFail == {j \in 1..Len(items) :
                       /\ Src("lib", items[j].cat, items[j].rules[1]) \in r
                       /\ ModularDestName(before(j)["rules"].ents, base, items[j].cat,
                                          items[j].rules[1]) \in unwritable}
    IN  IF baseFail # {}
        THEN [t |-> copy_rules(t, r, UpTo(base, Least(baseFail) - 1), <<>>),
              raised |-> "OSError"]
        ELSE IF modFail # {}
        THEN [t |-> before(Least(modFail)), raised |-> "OSError"]
        ELSE [t |-> copy_rules(t, r, base, modular), raised |-> "none"]

\* the name of the project directory
ProjectName == <<"p", "r", "o", "j">>

\* the selections of rules the registry allows, and the header of each
\* (generate_claude_foundry_header, computed once)
RuleSelections ==
    {[rules |-> b \o Flatten([i \in 1..Len(ModularOf(md, 1)) |-> ModularOf(md, 1)[i].rules]),
      langs |-> Range(md[LANG])] :
        b \in SubLists(BASE_RULES), md \in ChosenLangs}
Headers ==
    [x \in RuleSelections |-> generate_claude_foundry_header(x.rules, x.langs)]
HeaderOf(deployed_rules, selected_langs) ==
    LET x == [rules |-> deployed_rules, langs |-> selected_langs]
    IN  IF x \in RuleSelections THEN Headers[x]
        ELSE generate_claude_foundry_header(deployed_rules, selected_langs)

\* CLAUDE_MD_TEMPLATE around the header (HeaderOf is
\* generate_claude_foundry_header)
generate_claude_md(project_name, deployed_rules, selected_langs) ==
    <<"#", " ">> \o project_name \o <<"\n", "\n">>
    \o HeaderOf(deployed_rules, selected_langs) \o <<"\n">>

\* deployed_rules and selected_langs of a run of cmd_init
DeployedRules(sel) ==
    sel.base \o Flatten([i \in 1..Len(sel.modular) |-> sel.modular[i].rules])
SelectedLangs(sel) ==
    UNION {Range(sel.modular[i].rules) :
               i \in {j \in 1..Len(sel.modular) : sel.modular[j].cat = LANG}}

\* confirm(msg, default), given the answer typed (stripped, in lower case)
confirm(answer, default) ==
    IF answer = "" THEN default ELSE answer \in {"y", "yes"}

\* how cmd_init is called: interactive and force, the answer to the one
\* confirm() it may ask and the choice typed at the [R/M/Q] prompt
\* (stripped, in upper case)
Mode(interactive, force, answer, choice) ==
    [interactive |-> interactive, force |-> force, answer |-> answer, choice |-> choice]
Batch == Mode(FALSE, FALSE, "", "")
\* cmd_init(project): interactive, every confirm() answered with yes
Interactive == Mode(TRUE, FALSE, "y", "R")

\* the pre-checks: an interactive run on a project that has a VERSION file
\* returns False when the update is not confirmed, or when VERSION compares
\* greater than the repository's version; the comparison is of strings
VersionDeclined(m) ==
    LET version == ver.repo
        existing == Strip(ver.project.text)
    IN  /\ ver.project.exists /\ m.interactive
        /\ IF existing = version THEN ~confirm(m.answer, FALSE)
           ELSE IF StrLess(existing, version) THEN ~confirm(m.answer, TRUE)
           ELSE TRUE

\* the version check asks: the project's version is the repository's or
\* compares less
VersionAsked(m) ==
    LET version == ver.repo
        existing == Strip(ver.project.text)
    IN  /\ ver.project.exists /\ m.interactive
        /\ (existing = version \/ StrLess(existing, version))

\* (claude_dir / "VERSION").write_text(version + "\n")
VersionWritten == [ver EXCEPT !.project = File(ver.repo \o <<"\n">>)]

\* a non-interactive run that finds a CLAUDE.md without the marker
NoMarkerFound(m) ==
    ~m.interactive /\ claude_md.exists /\ ~has_claude_foundry_header(claude_md.text)

\* the two writes the other way round: CLAUDE.md first, CLAUDE.md.old after
OverwriteThenBackup(r) ==
    <<[file |-> CLAUDE_MD, to |-> r.md], [file |-> CLAUDE_MD_OLD, to |-> r.old]>>

MdResult(md, old, op, ok) == [md |-> md, old |-> old, op |-> op, ok |-> ok]

(***************************************************************************)
(* cmd_init, sections 2 to 8: the selections of a non-interactive run,     *)
(* taken from the manifest when it is truthy and from the defaults and     *)
(* the detection otherwise.                                                *)
(***************************************************************************)

\* what the dict written by save_manifest holds under a key
SavedField(sel, manifest_key, manifest_sub) ==
    CASE manifest_key = "base_rules" -> sel.base
      [] manifest_key = "modular_rules" ->
            Flatten([i \in 1..Len(sel.modular) |->
                        IF sel.modular[i].cat = manifest_sub THEN sel.modular[i].rules
                        ELSE <<>>])
      [] manifest_key = "hooks" -> sel.hooks
      [] manifest_key = "agents" -> sel.agents
      [] manifest_key = "skills" -> sel.skills
      [] manifest_key = "learned_categories" -> sel.learned
      [] manifest_key = "plugins" -> sel.plugins
      [] manifest_key = "mcp_servers" -> sel.mcp_servers
      [] OTHER -> <<>>

\* "item in saved" for a list, a str (a substring test) and a dict
ItemIn(item, saved) ==
    CASE saved.t = "list" -> \E i \in 1..Len(saved.l) : saved.l[i] = JStr(item)
      [] saved.t = "str" -> Contains(saved.s, item)
      [] saved.t = "obj" -> item \in DOMAIN saved.o
      [] OTHER -> FALSE

\* cmd_init._manifest_indices, the set it returns (indices from 1)
ManifestIndices(loaded, registry_items, manifest_key, manifest_sub) ==
    IF ~Truthy(loaded) THEN {}
    ELSE IF loaded.t = "saved"
    THEN {i \in 1..Len(registry_items) :
            registry_items[i] \in Range(SavedField(manifest.sel, manifest_key, manifest_sub))}
    ELSE LET top == Get(loaded, manifest_key,
                        IF manifest_sub = "" THEN JList(<<>>) ELSE JObj(<<>>))
             saved == IF top.raised # "none" \/ manifest_sub = "" THEN top
                      ELSE Get(top.value, manifest_sub, JList(<<>>))
         IN  IF saved.raised # "none" THEN {}
             ELSE {i \in 1..Len(registry_items) : ItemIn(registry_items[i], saved.value)}

\* "if manifest: <from the manifest> else: <the default>", with a variant
\* that adds the default to what the manifest gives
DefaultsAdded(loaded, saved, default) == saved \cup default
Defaults(loaded, saved, default) == IF Truthy(loaded) THEN saved ELSE default

\* HOOK_SCRIPTS[script]["langs"] of the model's registry
HookLangs(script) == {PYTHON_MD}

\* the agents auto-selected for the selected languages
AgentAuto(agent_files, selected_langs) ==
    {i \in 1..Len(agent_files) :
        \/ \E lang \in selected_langs :
               LET lang_key == Replace(lang, MD, <<>>)
               IN  \/ Contains(agent_files[i], HY \o lang_key \o <<".">>)
                   \/ StartsWith(agent_files[i], lang_key \o <<".">>)
        \/ /\ selected_langs \cap {REACT_MD, NODEJS_MD} # {}
           /\ Contains(agent_files[i], TYPESCRIPT)}

\* the skills auto-selected for the selected languages
SkillAuto(selected_langs) ==
    {i \in 1..Len(SKILLS) :
        SKILLS[i] \in {GUI_THREADING, PYTHON_QT_GUI} /\ PYTHON_QT_MD \in selected_langs}

\* s without the repetitions of its items
RECURSIVE Unique(_)
Unique(s) ==
    IF s = <<>> THEN <<>>
    ELSE LET rest == Unique(UpTo(s, Len(s) - 1))
         IN  IF s[Len(s)] \in Range(rest) THEN rest ELSE Append(rest, s[Len(s)])

\* all_plugins, the names: the LSP plugin of each selected language that
\* has one, then the workflow plugins
AllPlugins(selected_langs) ==
    LET langs == SortedSet(selected_langs \cap DOMAIN LSP_PLUGINS)
    IN  Unique([i \in 1..Len(langs) |-> LSP_PLUGINS[langs[i]]]) \o WORKFLOW_PLUGINS

\* the selections of cmd_init(project, interactive=False), sections 1 and
\* 3 to 8, given the modular rules chosen in section 2
SelectionAfter(loaded, chosen, r) ==
    LET Idx(items, key, sub) == ManifestIndices(loaded, items, key, sub)
        All(items) == 1..Len(items)
        base == Defaults(loaded, Idx(BASE_RULES, "base_rules", ""), All(BASE_RULES))
        selected_langs == Range(chosen[LANG])
        hooks == Defaults(loaded, Idx(HOOK_SCRIPTS, "hooks", ""),
                          {i \in All(HOOK_SCRIPTS) :
                              HookLangs(HOOK_SCRIPTS[i]) \cap selected_langs # {}})
        agents == Defaults(loaded, Idx(AgentFilesOf(r), "agents", ""),
                           AgentAuto(AgentFilesOf(r), selected_langs))
        skills == Defaults(loaded, Idx(SKILLS, "skills", ""), SkillAuto(selected_langs))
        learned == Defaults(loaded, Idx(LearnedCategories(r), "learned_categories", ""),
                            All(LearnedCategories(r)))
        all_plugins == AllPlugins(selected_langs)
        plugins == Defaults(loaded, Idx(all_plugins, "plugins", ""), All(all_plugins))
        mcp == Defaults(loaded, Idx(McpNames(r), "mcp_servers", ""), {})
    IN  [RegSel(Pick(BASE_RULES, base), ModularOf(chosen, 1),
                Pick(AgentFilesOf(r), agents), Pick(SKILLS, skills),
                Pick(LearnedCategories(r), learned), Pick(HOOK_SCRIPTS, hooks))
         EXCEPT !.plugins = Pick(all_plugins, plugins),
                !.mcp_servers = Pick(McpNames(r), mcp)]

\* the selections of cmd_init(project, interactive=False): the modular
\* rules of section 2, then the sections that go by the languages chosen
BatchSelection(loaded, detected_langs, detected_platform, r) ==
    LET Idx(items, key, sub) == ManifestIndices(loaded, items, key, sub)
        All(items) == 1..Len(items)
        auto(c) == Defaults(loaded, Idx(MODULAR_RULES[c], "modular_rules", c),
                            {i \in All(MODULAR_RULES[c]) :
                                \/ c = LANG /\ MODULAR_RULES[c][i] \in detected_langs
                                \/ c = W_PLATFORM /\ MODULAR_RULES[c][i] \in detected_platform})
    IN  CHOOSE sel \in {SelectionAfter(loaded, chosen, r) :
                            chosen \in {[c \in Range(ModularCategories) |->
                                            Pick(MODULAR_RULES[c], auto(c))]}} : TRUE

\* the selections of a non-interactive run on the project at hand
Selected(loaded) ==
    BatchSelection(loaded, detected \cap Range(MODULAR_RULES[LANG]),
                   detected \cap Range(MODULAR_RULES[W_PLATFORM]), repo)

\* cmd_init, "CLAUDE.md", where it does not wait: what becomes of CLAUDE.md
\* and CLAUDE.md.old, from the text read at this point
ClaudeMdStep(sel, force_merged) ==
    LET deployed_rules == DeployedRules(sel)
        selected_langs == SelectedLangs(sel)
        header == HeaderOf(deployed_rules, selected_langs)
        existing_content == claude_md.text
        fresh == File(generate_claude_md(ProjectName, deployed_rules, selected_langs))
        merged == File(prepend_claude_foundry_header(existing_content, header))
    IN  IF claude_md.exists
        THEN IF has_claude_foundry_header(existing_content)
             THEN MdResult(File(update_claude_foundry_header(existing_content, header)),
                           claude_old, "update", TRUE)
             ELSE IF force_merged
             THEN MdResult(merged, File(existing_content), "prepend", TRUE)
             ELSE MdResult(claude_md, claude_old, "kept", TRUE)
        ELSE MdResult(fresh, claude_old, "create", TRUE)

\* ... and after input("Choice [R/M/Q]"): existing_content is the text read
\* before the prompt
ChoiceStep(sel, existing_content, choice) ==
    LET deployed_rules == DeployedRules(sel)
        selected_langs == SelectedLangs(sel)
        header == HeaderOf(deployed_rules, selected_langs)
        fresh == File(generate_claude_md(ProjectName, deployed_rules, selected_langs))
        merged == File(prepend_claude_foundry_header(existing_content, header))
    IN  IF choice = "Q" THEN MdResult(claude_md, claude_old, "quit", FALSE)
        ELSE IF choice = "R"
        THEN MdResult(fresh, File(existing_content), "replace", TRUE)
        ELSE MdResult(merged, File(existing_content), "prepend", TRUE)

\* the files cmd_init writes, and what a step of cmd_init never touches
written == <<tree, manifest, sources, claude_md, claude_old, hdr, rin, mraw, ver>>
untouched == <<repo, psrc, nuser, cand, verdict, mrules, mout, failing, menu, ua, detected>>

\* cmd_init returns ok, or raises: rec holds the files as the call found
\* them, read is the CLAUDE.md the run went by
ReturnsFrom(read, sel, ok, rec, op, raised) ==
    /\ last' = [RegOp("cmd_init", sel) EXCEPT !.ok = ok]
    /\ mdop' = [rec EXCEPT !.op = op, !.read = read, !.edits = ci.edits]
    /\ exc' = raised
    /\ ci' = NoCall

Returns(sel, ok, rec, op, raised) == ReturnsFrom(claude_md, sel, ok, rec, op, raised)

\* cmd_init waits in input()
Waits(pc, sel, content, rec) ==
    /\ last' = RegOp("cmd_init waits", sel)
    /\ mdop' = [rec EXCEPT !.op = "waits", !.read = claude_md]
    /\ exc' = "none"
    /\ ci' = [pc |-> pc, sel |-> sel, content |-> content, edits |-> ci.edits]

\* the two writes of a branch that overwrites a CLAUDE.md without the
\* marker, in the order of the code: backup.write_text(existing_content),
\* then claude_md.write_text(...)
BackupThenOverwrite(r) ==
    <<[file |-> CLAUDE_MD_OLD, to |-> r.old], [file |-> CLAUDE_MD, to |-> r.md]>>

\* path.write_text(...) on CLAUDE.md or CLAUDE.md.old
WriteFile(w) ==
    /\ claude_md' = IF w.file = CLAUDE_MD THEN w.to ELSE claude_md
    /\ claude_old' = IF w.file = CLAUDE_MD_OLD THEN w.to ELSE claude_old

\* cmd_init has written the first of the two files and goes on to the second
Proceeds(sel, content, rec) ==
    /\ last' = RegOp("cmd_init writes", sel)
    /\ mdop' = [rec EXCEPT !.op = "writes", !.read = File(content)]
    /\ exc' = "none"
    /\ ci' = [pc |-> "overwrite", sel |-> sel, content |-> content, edits |-> ci.edits]

\* cmd_init from "Generate" on: VERSION, the copies, save_manifest, which
\* overwrites the manifest with the dict of this run, and CLAUDE.md, up to
\* the [R/M/Q] prompt of an interactive run that finds a CLAUDE.md without
\* the marker, or up to the backup of a confirmed --force run.  An
\* exception of a copy leaves what was written before it; one of
\* save_manifest leaves VERSION and the copies, the manifest as it was
\* found and CLAUDE.md as it is; one of the backup leaves CLAUDE.md as it
\* is.  A manifest file that is write-only is overwritten and stays
\* write-only.
CmdInitGenerate(sel, m, force_merged, rec) ==
    \E rules \in {copy_rules_writing(tree, repo, sel.base, sel.modular, failing)} :
    \E r \in {ClaudeMdStep(sel, force_merged)} :
        IF rules.raised # "none"
        THEN /\ tree' = rules.t
             /\ ver' = VersionWritten
             /\ Returns(sel, FALSE, rec, "raised", rules.raised)
             /\ UNCHANGED <<manifest, sources, claude_md, claude_old, hdr, rin, mraw>>
        ELSE IF save_manifest(mraw) # "none"
        THEN /\ tree' = Generate(tree, repo, sel)
             /\ ver' = VersionWritten
             /\ Returns(sel, FALSE, rec, "raised", save_manifest(mraw))
             /\ UNCHANGED <<manifest, sources, claude_md, claude_old, hdr, rin, mraw>>
        ELSE /\ tree' = Generate(tree, repo, sel)
             /\ ver' = VersionWritten
             /\ manifest' = SavedManifest(sel)
             /\ mraw' = IF mraw.kind = "writeonly" THEN mraw ELSE AsSaved
             /\ sources' = <<>>
             /\ rin' = [rules |-> DeployedRules(sel), langs |-> SelectedLangs(sel)]
             /\ hdr' = HeaderOf(rin'.rules, rin'.langs)
             /\ IF /\ m.interactive /\ claude_md.exists
                   /\ ~has_claude_foundry_header(claude_md.text)
                THEN /\ Waits("choice", sel, claude_md.text, rec)
                     /\ UNCHANGED <<claude_md, claude_old>>
                ELSE IF r.op = "prepend"
                THEN \E w \in {BackupThenOverwrite(r)[1]} :
                         IF w.file \in failing
                         THEN /\ Returns(sel, FALSE, rec, "raised", "OSError")
                              /\ UNCHANGED <<claude_md, claude_old>>
                         ELSE /\ WriteFile(w)
                              /\ Proceeds(sel, claude_md.text, rec)
                ELSE /\ claude_md' = r.md
                     /\ claude_old' = r.old
                     /\ Returns(sel, r.ok, rec, r.op, "none")

\* cmd_init from "Load manifest for defaults" on: an interactive run takes
\* the defaults of the base rules from the manifest and waits in its menus;
\* a non-interactive one takes the defaults of all sections and goes
\* through the pre-check of CLAUDE.md, where it returns False, waits in the
\* confirm() of --force or goes on to "Generate"
CmdInitLoad(m, rec) ==
    LET loaded == load_manifest(mraw, manifest)
        raised == IF m.interactive THEN BaseRaise(loaded)
                  ELSE DefaultsRaise(loaded, repo)
    IN  IF raised # "none"
        THEN Returns(NoRegSel, FALSE, rec, "raised", raised) /\ UNCHANGED written
        ELSE IF m.interactive
        THEN Waits("menus", NoRegSel, <<>>, rec) /\ UNCHANGED written
        ELSE \E sel \in {Selected(loaded.value)} :
                 IF NoMarkerFound(m)
                 THEN /\ IF m.force THEN Waits("force", sel, claude_md.text, rec)
                         ELSE Returns(sel, FALSE, rec, "skipped", "none")
                      /\ UNCHANGED written
                 ELSE CmdInitGenerate(sel, m, FALSE, rec)

\* cmd_init(project, interactive, force) is called: the version check, which
\* returns False for a project newer than the repository and waits in
\* confirm() for one that is not; without a VERSION file, and in a
\* non-interactive run, cmd_init goes on
cmd_init(m) ==
    /\ ci.pc = "idle"
    /\ nops < MaxOps
    /\ nops' = nops + 1
    /\ prev' = tree
    /\ mode' = m
    /\ IF VersionAsked(m)
       THEN Waits("version", NoRegSel, <<>>, MdOp("called")) /\ UNCHANGED written
       ELSE IF VersionDeclined(m)
       THEN Returns(NoRegSel, FALSE, MdOp("called"), "skipped", "none") /\ UNCHANGED written
       ELSE CmdInitLoad(m, MdOp("called"))
    /\ UNCHANGED untouched

\* the confirm() of the version check is answered
CmdInitVersion ==
    /\ ci.pc = "version"
    /\ IF VersionDeclined(mode)
       THEN Returns(NoRegSel, FALSE, mdop, "skipped", "none") /\ UNCHANGED written
       ELSE CmdInitLoad(mode, mdop)
    /\ UNCHANGED <<nops, prev, mode>>
    /\ UNCHANGED untouched

\* the menus of an interactive run: the defaults of each section after the
\* base rules are taken from the manifest when the menu before it has
\* returned, which may raise; otherwise the menus return the selection sel
CmdInitMenus(sel) ==
    /\ ci.pc = "menus"
    /\ \E raised \in {DefaultsRaise(load_manifest(mraw, manifest), repo)} :
           IF raised # "none"
           THEN Returns(NoRegSel, FALSE, mdop, "raised", raised) /\ UNCHANGED written
           ELSE CmdInitGenerate(sel, mode, FALSE, mdop)
    /\ UNCHANGED <<nops, prev, mode>>
    /\ UNCHANGED untouched

\* the confirm() of --force is answered; force_merge is set on a yes, and
\* CLAUDE.md is tested and read again after the copies
CmdInitForce ==
    /\ ci.pc = "force"
    /\ IF confirm(mode.answer, FALSE)
       THEN CmdInitGenerate(ci.sel, mode, TRUE, mdop)
       ELSE Returns(ci.sel, FALSE, mdop, "skipped", "none") /\ UNCHANGED written
    /\ UNCHANGED <<nops, prev, mode>>
    /\ UNCHANGED untouched

\* the [R/M/Q] prompt is answered: Q returns False; otherwise the text read
\* before the prompt is written to CLAUDE.md.old, which may raise
CmdInitChoice ==
    /\ ci.pc = "choice"
    /\ \E r \in {ChoiceStep(ci.sel, ci.content, mode.choice)} :
           IF r.op = "quit"
           THEN /\ ReturnsFrom(File(ci.content), ci.sel, r.ok, mdop, r.op, "none")
                /\ UNCHANGED <<claude_md, claude_old>>
           ELSE \E w \in {BackupThenOverwrite(r)[1]} :
                    IF w.file \in failing
                    THEN /\ ReturnsFrom(File(ci.content), ci.sel, FALSE, mdop,
                                        "raised", "OSError")
                         /\ UNCHANGED <<claude_md, claude_old>>
                    ELSE /\ WriteFile(w)
                         /\ Proceeds(ci.sel, ci.content, mdop)
    /\ UNCHANGED <<tree, manifest, sources, hdr, rin, mraw, ver>>
    /\ UNCHANGED <<nops, prev, mode>>
    /\ UNCHANGED untouched

\* the second write of Replace, Merge and --force: CLAUDE.md is written from
\* the text read before the backup, and cmd_init returns True
CmdInitOverwrite ==
    /\ ci.pc = "overwrite"
    /\ \E r \in {ChoiceStep(ci.sel, ci.content,
                             IF mode.interactive THEN mode.choice ELSE "M")} :
       \E w \in {BackupThenOverwrite(r)[2]} :
           IF w.file \in failing
           THEN /\ ReturnsFrom(File(ci.content), ci.sel, FALSE, mdop, "raised", "OSError")
                /\ UNCHANGED <<claude_md, claude_old>>
           ELSE /\ WriteFile(w)
                /\ ReturnsFrom(File(ci.content), ci.sel, r.ok, mdop, r.op, "none")
    /\ UNCHANGED <<tree, manifest, sources, hdr, rin, mraw, ver>>
    /\ UNCHANGED <<nops, prev, mode>>
    /\ UNCHANGED untouched

\* the steps of a run of cmd_init after its call, the menus returning one
\* of the given selections
CmdInitSteps(selections) ==
    \/ CmdInitVersion
    \/ \E sel \in selections : CmdInitMenus(sel)
    \/ CmdInitForce
    \/ CmdInitChoice
    \/ CmdInitOverwrite

\* while cmd_init waits in input(), CLAUDE.md is written or deleted by
\* someone else, at most MaxEdits times in a run
EditClaudeMd(doc) ==
    /\ ci.pc \in {"version", "menus", "force", "choice"}
    /\ ci.edits < MaxEdits
    /\ doc # claude_md
    /\ claude_md' = doc
    /\ ci' = [ci EXCEPT !.edits = @ + 1]
    /\ UNCHANGED <<tree, repo, psrc, sources, manifest, prev, last, nuser, nops, cand,
                   verdict, mrules, mout, claude_old, hdr, rin, mode, mdop, mraw,
                   failing, exc, ver, menu, ua, detected>>

\* cmd_init(project, interactive=False)
CmdInit == cmd_init(Batch)

\* cmd_init(project) and cmd_init(project, interactive=False), and the steps
\* of the interactive run on a project whose CLAUDE.md, if any, carries the
\* marker: the version check and the menus, which return any of the tried
\* selections
CmdInitRuns ==
    \/ \E m \in {Batch, Interactive} : cmd_init(m)
    \/ CmdInitVersion
    \/ \E sel \in TriedSelections(repo) : CmdInitMenus(sel)

Next ==
    \/ \E d \in Dirs : \E n \in UserNames(d) : UserAdd(d, n)
    \/ \E b \in SubLists(BASE_RULES) :
           \E m \in ChosenLangs :
               CopyRules(b, ModularOf(m, 1))
    \/ \E a \in SubLists(AgentFiles) : CopyAgents(a)
    \/ CopyCommands
    \/ \E sk \in SubLists(SKILLS) : CopySkills(sk)
    \/ \E h \in SubLists(HOOK_SCRIPTS) : CopyHooks(h)
    \/ CmdInitRuns

Spec == Init /\ [][Next]_vars

(***************************************************************************)
(* Ownership of a destination entry, as the specification classifies it.   *)
(***************************************************************************)
Protected(d, n) == d = "skills" /\ n \in ProtectedNames
PrivateOwned(n, prefixes) == \E p \in prefixes : StartsWith(n, p \o HY)
ManagedUnowned(d, n, prefixes) == ~Protected(d, n) /\ ~PrivateOwned(n, prefixes)

ModularNames(modular) ==
    UNION {Range(modular[i].rules) : i \in 1..Len(modular)}

\* the items of a selection whose source exists, by category directory
DesiredNames(d, reg, r) ==
    CASE d = "rules" ->
            {n \in Range(reg.base) : Src("rules", <<>>, n) \in r}
            \cup UNION {{n \in Range(reg.modular[i].rules) :
                            Src("lib", reg.modular[i].cat, n) \in r} :
                        i \in 1..Len(reg.modular)}
      [] d = "agents" -> {n \in Range(reg.agents) : Src("agents", <<>>, n) \in r}
      [] d = "commands" -> SourceCommands(r)
      [] d = "skills" -> {n \in Range(reg.skills) : Src("skills", <<>>, n) \in r}
      [] OTHER -> {n \in Range(reg.hooks) : Src("hooks", <<>>, n) \in r}

\* the copy routines and cmd_init, the operations that reconcile
ReconcileOps ==
    {"copy_rules", "copy_agents", "copy_commands", "copy_skills", "copy_hooks",
     "cmd_init"}

\* the last operation run once more, with the same selection, on tree t
Again(t) ==
    CASE last.op = "copy_rules" -> copy_rules(t, repo, last.reg.base, last.reg.modular)
      [] last.op = "copy_agents" -> copy_agents(t, repo, last.reg.agents)
      [] last.op = "copy_commands" -> copy_commands(t, repo)
      [] last.op = "copy_skills" -> copy_skills(t, repo, last.reg.skills)
      [] last.op = "copy_hooks" -> copy_hooks(t, repo, last.reg.hooks)
      [] last.op = "cmd_init" -> Generate(t, repo, last.reg)
      [] OTHER -> t

\* C1: after a pass of cmd_init with selection S2 that follows a pass with
\* S1, the registry-owned entries of every category directory are exactly
\* the items of S2 (those whose source exists), so the items of S1 not in
\* S2 are gone, and every entry that carried a registered private prefix or
\* a protected name before the pass is still there.  The first part is
\* stated for a tree that held nothing before the passes, where every
\* registry-owned entry stems from S1 or S2.
C1_ExactlySelectionRemains ==
    (last.op = "cmd_init" /\ nops = 2) =>
        \A d \in Dirs :
            /\ nuser = 0 =>
                   {n \in Listing(tree, d) : ManagedUnowned(d, n, last.pfx)}
                       = DesiredNames(d, last.reg, repo)
            /\ \A n \in Listing(prev, d) :
                   ~ManagedUnowned(d, n, last.pfx) => n \in Listing(tree, d)

\* C2: reconciliation is idempotent: after a pass with selection S, a second
\* pass with S leaves every category directory's listing as the first pass
\* left it.
C2_PassIsIdempotent ==
    last.op \in ReconcileOps =>
        \A d \in Dirs : Listing(Again(tree), d) = Listing(tree, d)

\* C2 witness: a second pass of cmd_init, with rules, agents and skills
\* selected, that copied entries and removed a stale one.
C2_Witness ==
    /\ last.op = "cmd_init" /\ nops = 2
    /\ last.reg.base # <<>> /\ last.reg.modular # <<>>
    /\ last.reg.agents # <<>> /\ last.reg.skills # <<>>
    /\ PYTHON_MD \in Listing(tree, "rules") /\ PYTHON_MD \notin Listing(prev, "rules")
    /\ Z_MD \in Listing(prev, "agents") /\ Z_MD \notin Listing(tree, "agents")

\* the category directory a copy routine works on
DirOf(op) ==
    CASE op = "copy_agents" -> "agents"
      [] op = "copy_commands" -> "commands"
      [] OTHER -> "skills"

\* C3: copy_agents, copy_commands and copy_skills, with any selection, leave
\* every entry whose name starts with a registered prefix and "-" in place,
\* and remove the stale unprefixed entries that are not selected.
C3_PrivateEntriesSurvive ==
    last.op \in {"copy_agents", "copy_commands", "copy_skills"} =>
        LET d == DirOf(last.op)
        IN  \A n \in Listing(prev, d) :
                /\ PrivateOwned(n, last.pfx) => n \in Listing(tree, d)
                /\ (ManagedUnowned(d, n, last.pfx)
                       /\ n \notin DesiredNames(d, last.reg, repo))
                     => n \notin Listing(tree, d)

(***************************************************************************)
(* The private-source operations as a state machine: a starting tree,      *)
(* then copy_skills, clean, deploy and redeploy in any order.              *)
(***************************************************************************)
\* the private_sources lists a manifest of the model may hold; every prefix
\* in them passes validate_prefix
SourceLists ==
    {<<>>,
     <<Ref(Path1, PFX_P, SelD)>>,
     <<Ref(Path1, PFX_P, SelD), Ref(Path2, PFX_PQ, SelE)>>,
     <<Ref(Path2, PFX_PQ, SelE), Ref(Path1, PFX_P, SelNone)>>}

\* the prefixes clean and deploy are called with: the registered ones and
\* a reserved word
TriedPrefixes == {PFX_P, PFX_PQ, LEARNED}

PrivateUserNames(d) ==
    CASE d = "rules" -> {PFX_P \o HY \o O_MD, PFX_PQ \o HY \o O_MD}
      [] d = "skills" -> {LEARNED, LEARNED_LOCAL, PFX_P \o HY \o <<"o">>}
      [] OTHER -> {}

\* the source and selection deploy is called with: a selection made from
\* what the source offers (SelD names one rule that has since gone)
TriedDeployments ==
    {<<Path1, SelNone>>, <<Path1, SelD>>, <<Path1, SelLocal>>, <<Path2, SelE>>}

InitPrivate ==
    /\ tree = EmptyTree
    /\ repo = RepoAll
    /\ psrc \in {PrivateSources(TRUE), PrivateSources(FALSE)}
    /\ sources \in SourceLists
    /\ manifest = IF sources = <<>> THEN NoManifest ELSE SavedManifest(NoRegSel)
    /\ prev = tree
    /\ nuser = 0
    /\ nops = 0
    /\ last = [op |-> "init", pfx |-> {}, refs |-> <<>>, reg |-> NoRegSel, prefix |-> <<>>,
               path |-> <<>>, sel |-> SelNone, rep |-> EmptyReport, res |-> <<>>,
               ok |-> TRUE]
    /\ Idle

Clean(prefix) ==
    /\ Ran(clean_private_files(tree, prefix),
           Op("clean", NoRegSel, prefix, <<>>, SelNone, EmptyReport, <<>>, TRUE))
    /\ UNCHANGED <<repo, psrc, sources, manifest, nuser, cand, verdict, mrules, mout>> /\ NoDocOp

Deploy(path, prefix, sel) ==
    LET dep == deploy_private_source(tree, psrc, path, prefix, sel)
    IN  /\ Ran(dep.t, Op("deploy", NoRegSel, prefix, path, sel, dep.rep, <<>>, TRUE))
        /\ UNCHANGED <<repo, psrc, sources, manifest, nuser, cand, verdict, mrules, mout>> /\ NoDocOp

Redeploy ==
    LET red == redeploy_private_sources(tree, psrc, sources)
    IN  /\ Ran(red.t, Op("redeploy", NoRegSel, <<>>, <<>>, SelNone, EmptyReport,
                         red.res, TRUE))
        /\ UNCHANGED <<repo, psrc, sources, manifest, nuser, cand, verdict, mrules, mout>> /\ NoDocOp

NextPrivate ==
    \/ \E d \in Dirs : \E n \in PrivateUserNames(d) : UserAdd(d, n)
    \/ \E sk \in SubLists(SKILLS) : CopySkills(sk)
    \/ \E p \in TriedPrefixes : Clean(p)
    \/ \E p \in TriedPrefixes : \E ps \in TriedDeployments :
           Deploy(ps[1], p, ps[2])
    \/ Redeploy

SpecPrivate == InitPrivate /\ [][NextPrivate]_vars

(***************************************************************************)
(* Claims about the private-source operations (SpecPrivate).               *)
(***************************************************************************)
ProtectedKept ==
    \A n \in ProtectedNames :
        n \in Listing(prev, "skills") =>
            /\ n \in Listing(tree, "skills")
            /\ tree["skills"].ents[n] = prev["skills"].ents[n]

\* the operations that go through the skills directory of a project with
\* registered private sources: copy_skills, clean and redeploy
PrivateOps == {"copy_skills", "clean", "redeploy"}

\* C4: after copy_skills with any selection (the empty one included), clean
\* with any prefix (the reserved word learned included) and redeploy over
\* the registered sources, the entries skills/learned and
\* skills/learned-local that existed before are still present and
\* unchanged.
C4_ProtectedUnderAnyPrefix ==
    last.op \in PrivateOps => ProtectedKept

\* clean with the reserved word learned for a prefix left
\* skills/learned-local in place
C4_Witness ==
    /\ last.op = "clean" /\ last.prefix = LEARNED
    /\ LEARNED_LOCAL \in Listing(prev, "skills")
    /\ LEARNED_LOCAL \in Listing(tree, "skills")

\* two prefixes validate_prefix lets a manifest register side by side
CanCoexist(p, q) ==
    /\ validate_prefix(p, <<>>) = "none"
    /\ validate_prefix(q, <<p>>) = "none"

\* C5: clean(tree, p) leaves in place every entry deployed under another
\* registered prefix q (hyphens in the prefixes included) and every entry
\* that does not carry the prefix p at all, and a missing category
\* directory is not an error.
C5_CleanTouchesOnlyItsPrefix ==
    last.op = "clean" =>
        /\ last.ok
        /\ \A d \in Dirs : \A n \in Listing(prev, d) :
               \/ n \in Listing(tree, d)
               \/ /\ StartsWith(n, last.prefix \o HY)
                  /\ ~\E q \in TriedPrefixes :
                         /\ CanCoexist(last.prefix, q)
                         /\ prev[d].ents[n].o = "private"
                         /\ StartsWith(n, q \o HY)

Exists(path, d, id) == PSrc(path, d, id) \in SourceEntries(psrc, path)

\* C7: the report of deploy(source, prefix, selection) lists, per category,
\* exactly the selected identifiers whose source exists, and for each of
\* them the destination holds the entry "<prefix>-<basename(id)>".
C7_ReportIsWhatWasDeployed ==
    last.op = "deploy" =>
        \A d \in Dirs :
            /\ Range(last.rep[d])
                   = {id \in Range(last.sel[d]) : Exists(last.path, d, id)}
            /\ \A id \in Range(last.rep[d]) :
                   LET n == last.prefix \o HY \o Basename(id)
                   IN  /\ n \in Listing(tree, d)
                       /\ tree[d].ents[n] = PSrc(last.path, d, id)

C7_Witness ==
    /\ last.op = "deploy" /\ last.sel = SelD /\ last.path = Path1
    /\ last.rep["rules"] = <<R_D>>
    /\ R_X \in Range(last.sel["rules"])
    /\ (last.prefix \o HY \o D_MD) \in Listing(tree, "rules")

\* C8: after redeployAll, for every registered source whose path resolves,
\* the entries "<prefix>-*" of each category are exactly the names deployed
\* from its selection in this run.
C8_PrefixEntriesAreTheDeployed ==
    last.op = "redeploy" =>
        \A i \in 1..Len(last.res) :
            LET ref == last.res[i].ref
            IN  psrc[ref.path].resolves =>
                    \A d \in Dirs :
                        {n \in Listing(tree, d) : StartsWith(n, ref.prefix \o HY)}
                            = {ref.prefix \o HY \o Basename(id) :
                                   id \in Range(last.res[i].rep[d])}

(***************************************************************************)
(* The private_sources of the manifest across redeploy and cmd_init       *)
(* (SpecManifest): redeploy reads the registrations, cmd_init writes the   *)
(* manifest anew.                                                          *)
(***************************************************************************)
NextManifest ==
    \/ Redeploy
    \/ CmdInitRuns

SpecManifest == InitPrivate /\ [][NextManifest]_vars

\* C9: redeployAll returns one result per registered PrivateSourceRef, in
\* order, with an empty report for a source whose path does not resolve, and
\* no registration is dropped: after the run that writes the manifest back,
\* every reference registered before is still registered with its prefix,
\* path and selections.
C9_RegistrationsAreRetained ==
    /\ last.op = "redeploy" =>
           /\ Len(last.res) = Len(last.refs)
           /\ sources = last.refs
           /\ \A i \in 1..Len(last.refs) :
                  /\ last.res[i].ref = last.refs[i]
                  /\ ~psrc[last.refs[i].path].resolves =>
                         last.res[i].rep = EmptyReport
    /\ last.op = "cmd_init" =>
           /\ manifest.written
           /\ \A i \in 1..Len(last.refs) : last.refs[i] \in Range(sources)

(***************************************************************************)
(* Registering prefixes (SpecPrefix): a candidate is validated against    *)
(* the prefixes the manifest holds and registered when validate_prefix     *)
(* returns no error.                                                       *)
(***************************************************************************)
MaxLen == 2
MaxSources == 2

\* a lowercase letter, a digit, the hyphen and a character outside the
\* pattern's classes
Alphabet == {"p", "4", "-", "A"}

RECURSIVE Strings(_)
Strings(n) ==
    IF n = 0 THEN {<<>>}
    ELSE {Append(s, ch) : s \in Strings(n - 1), ch \in Alphabet}

Candidates ==
    UNION {Strings(n) : n \in 0..MaxLen}
        \cup {LANG, LEARNED, LEARNED_LOCAL, W_SECURITY}

PrefixList(srcs) == [i \in 1..Len(srcs) |-> srcs[i].prefix]

InitPrefix ==
    /\ tree = EmptyTree
    /\ repo = RepoAll
    /\ psrc = PrivateSources(TRUE)
    /\ sources = <<>>
    /\ manifest = NoManifest
    /\ prev = tree
    /\ nuser = 0
    /\ nops = 0
    /\ last = [op |-> "init", pfx |-> {}, refs |-> <<>>, reg |-> NoRegSel,
               prefix |-> <<>>, path |-> <<>>, sel |-> SelNone, rep |-> EmptyReport,
               res |-> <<>>, ok |-> TRUE]
    /\ Idle

\* the caller of validate_prefix: the reference is added to the manifest's
\* private_sources only when there is no error
RegisterPrefix(c) ==
    /\ Len(sources) < MaxSources
    /\ cand' = c
    /\ verdict' = validate_prefix(c, PrefixList(sources))
    /\ sources' = IF verdict' = "none"
                  THEN Append(sources, Ref(Path1, c, SelNone))
                  ELSE sources
    /\ last' = Op("register", NoRegSel, c, Path1, SelNone, EmptyReport, <<>>,
                  verdict' = "none")
    /\ UNCHANGED <<tree, repo, psrc, manifest, prev, nuser, nops, mrules, mout>> /\ NoDocOp

NextPrefix == \E c \in Candidates : RegisterPrefix(c)

SpecPrefix == InitPrefix /\ [][NextPrefix]_vars

\* the pattern ^[a-z][a-z0-9-]*$ said of the whole string
PatternHolds(s) ==
    /\ Len(s) >= 1
    /\ s[1] \in Lower
    /\ \A i \in 2..Len(s) : s[i] \in Lower \cup Digit \cup {"-"}

\* C6: validate_prefix returns no error exactly when the candidate matches
\* ^[a-z][a-z0-9-]*$, is no reserved word and is not registered yet; in
\* every other case it returns an error and nothing is registered, so the
\* registered prefixes stay pairwise distinct and disjoint from the
\* reserved words.
C6_ValidPrefixesOnly ==
    /\ last.op = "register" =>
           /\ verdict = "none" <=>
                  /\ PatternHolds(cand)
                  /\ cand \notin ReservedWords
                  /\ cand \notin last.pfx
           /\ verdict # "none" => sources = last.refs
           /\ verdict = "none" => PrefixesOf(sources) = last.pfx \cup {cand}
    /\ \A i, j \in 1..Len(sources) :
           sources[i].prefix = sources[j].prefix => i = j
    /\ PrefixesOf(sources) \cap ReservedWords = {}

C6_Witness ==
    /\ last.op = "register" /\ verdict = "already registered"
    /\ cand = <<"p", "-">> /\ Len(sources) = 1

(***************************************************************************)
(* Migrating manifests (SpecMigrate): the modular_rules of a manifest of   *)
(* any schema, migrated, and migrated again by the next run.               *)
(***************************************************************************)
MaxKeys == 2

MigrateCategories == {"lang", "domain", "style", "arch", "platform", "templates"}

\* identifiers a manifest may list under a category, in registry order
MigrateItems(cat) ==
    CASE cat = "lang" -> <<"python.md", "react.md", "c.md">>
      [] cat = "domain" -> <<"embedded.md", "gui.md">>
      [] cat = "style" -> <<"backend.md", "scripts.md">>
      [] cat = "arch" -> <<"rest-api.md", "monolith.md">>
      [] cat = "platform" -> <<"github.md">>
      [] OTHER -> <<"rest-api.md", "react-app.md">>

\* cmd_init stores a category only with the rules selected from it
StoredLists(cat) == SubLists(MigrateItems(cat)) \ {<<>>}

RECURSIVE MigrateDicts(_)
MigrateDicts(n) ==
    IF n = 0 THEN {<<>>}
    ELSE LET smaller == MigrateDicts(n - 1)
         IN  smaller \cup
             UNION {{Append(x[1], [cat |-> x[2], rules |-> rl]) :
                        rl \in StoredLists(x[2])} :
                    x \in {y \in smaller \X MigrateCategories : y[2] \notin Keys(y[1])}}

MigrateInputs ==
    {[has |-> FALSE, mod |-> <<>>]}
        \cup {[has |-> TRUE, mod |-> m] : m \in MigrateDicts(MaxKeys)}

InitMigrate ==
    /\ tree = EmptyTree
    /\ repo = RepoAll
    /\ psrc = PrivateSources(TRUE)
    /\ sources = <<>>
    /\ manifest = NoManifest
    /\ prev = tree
    /\ nuser = 0
    /\ nops = 0
    /\ last = [op |-> "init", pfx |-> {}, refs |-> <<>>, reg |-> NoRegSel,
               prefix |-> <<>>, path |-> <<>>, sel |-> SelNone, rep |-> EmptyReport,
               res |-> <<>>, ok |-> TRUE]
    /\ cand = <<>> /\ verdict = "none"
    /\ DocIdle
    /\ mout \in MigrateInputs
    /\ mrules = mout

\* a run migrates the manifest it finds: mrules is what it found, mout what
\* it left
Migrate ==
    /\ nops < MaxOps
    /\ nops' = nops + 1
    /\ mrules' = mout
    /\ mout' = migrate_manifest(mout)
    /\ last' = Op("migrate", NoRegSel, <<>>, <<>>, SelNone, EmptyReport, <<>>, TRUE)
    /\ UNCHANGED <<tree, repo, psrc, sources, manifest, prev, nuser, cand, verdict>> /\ NoDocOp

NextMigrate == Migrate

SpecMigrate == InitMigrate /\ [][NextMigrate]_vars

\* a manifest with no old-schema category key and no identifier that has a
\* table entry
CurrentSchema(m) ==
    \A i \in 1..Len(m.mod) :
        /\ m.mod[i].cat \notin OldCategories
        /\ \A id \in Range(m.mod[i].rules) :
               MigrationTarget(m.mod[i].cat, id).kind = "none"

\* C10: migrate(migrate(X)) = migrate(X) for every manifest X, and a
\* manifest with no old-schema category key and no identifier with a table
\* entry is returned unchanged.
C10_MigrateIsIdempotent ==
    last.op = "migrate" =>
        /\ SameManifest(migrate_manifest(mout), mout)
        /\ CurrentSchema(mrules) => SameManifest(mout, mrules)
        /\ nops = 2 => SameManifest(mout, mrules)

C10_Witness ==
    /\ last.op = "migrate" /\ nops = 1
    /\ "domain" \in Keys(mrules.mod) /\ "lang" \in Keys(mrules.mod)
    /\ "react.md" \in Range(mrules.mod[KeyIndex(mrules.mod, "lang")].rules)
    /\ "templates" \in Keys(mout.mod)
    /\ "domain" \notin Keys(mout.mod)
    /\ ~SameManifest(mout, mrules)

(***************************************************************************)
(* What migrate_manifest does to the categories and their items            *)
(* (SpecMigrate).                                                          *)
(***************************************************************************)
\* the categories that have a table entry for at least one of their items
CategoriesOfTable ==
    {c \in MigrateCategories :
        \E id \in Range(MigrateItems(c)) : MigrationTarget(c, id).kind # "none"}

\* the (category, identifier) pairs of a modular_rules dict
Pairs(mod) ==
    UNION {{<<mod[i].cat, id>> : id \in Range(mod[i].rules)} : i \in 1..Len(mod)}

ListOf(mod, cat) == IF cat \in Keys(mod) THEN mod[KeyIndex(mod, cat)].rules ELSE <<>>
Count(seq, x) == Cardinality({i \in 1..Len(seq) : seq[i] = x})

\* C11 as stated: after migrate every category that has at least one table
\* entry (a Drop included) for any of its items is absent from the result,
\* whichever of its items the input held.
C11_EveryTableCategoryRemoved ==
    last.op = "migrate" =>
        \A c \in CategoriesOfTable : c \notin Keys(mout.mod)

\* C11, amended: after migrate the old-schema categories domain, style and
\* arch are absent from the result, whichever of their items the input held
\* (items without a table entry included); "lang", which has table entries
\* too, keeps its key.
C11_OldCategoriesRemoved ==
    last.op = "migrate" =>
        /\ \A c \in OldCategories : c \notin Keys(mout.mod)
        /\ (\E id \in Range(ListOf(mrules.mod, "lang")) :
                MigrationTarget("lang", id).kind = "none")
               => "lang" \in Keys(mout.mod)

C11_Witness ==
    /\ last.op = "migrate" /\ nops = 1
    /\ ListOf(mrules.mod, "arch") = <<"monolith.md">>
    /\ ListOf(mrules.mod, "lang") = <<"python.md", "react.md">>
    /\ Keys(mout.mod) = {"lang", "templates"}

\* the targets the table gives for the pairs of a dict
TargetsOf(mod) ==
    {MigrationTarget(pr[1], pr[2]) : pr \in Pairs(mod)} \ {Drop, NoEntry}

\* C12: in the result of migrate each new category's list holds every
\* identifier that is the table target of some pair of the input exactly
\* once, also when several pairs have the same target, and an item mapped
\* to Drop is in no category of the result.
C12_TargetsOnceDropsNowhere ==
    last.op = "migrate" =>
        /\ \A tg \in TargetsOf(mrules.mod) :
               Count(ListOf(mout.mod, tg.cat), tg.id) = 1
        /\ \A pr \in Pairs(mrules.mod) :
               MigrationTarget(pr[1], pr[2]) = Drop =>
                   \A c \in Keys(mout.mod) : pr[2] \notin Range(ListOf(mout.mod, c))
        /\ \A c \in Keys(mout.mod) : \A id \in Range(ListOf(mout.mod, c)) :
               Count(ListOf(mout.mod, c), id) = 1

C12_Witness ==
    /\ last.op = "migrate" /\ nops = 1
    /\ <<"style", "backend.md">> \in Pairs(mrules.mod)
    /\ <<"arch", "rest-api.md">> \in Pairs(mrules.mod)
    /\ ListOf(mout.mod, "templates") = <<"rest-api.md">>

\* the items of the input's list of a category that have no table entry
Unmapped(cat, rules) ==
    LET none(id) == MigrationTarget(cat, id).kind = "none"
    IN  SelectSeq(rules, none)

\* the list of cat in the result, cut down to the unmapped items of the
\* input: equal to them when all are kept in their order
KeptInOrder(cat) ==
    LET mine == Range(Unmapped(cat, ListOf(mrules.mod, cat)))
        isMine(id) == id \in mine
    IN  SelectSeq(ListOf(mout.mod, cat), isMine) = Unmapped(cat, ListOf(mrules.mod, cat))

\* C13 as stated: every (category, identifier) pair of the input without a
\* table entry is under the same category in the result, in the order of
\* the input.
C13_EveryUnmappedPairKept ==
    last.op = "migrate" =>
        \A c \in Keys(mrules.mod) :
            /\ KeptInOrder(c)
            /\ Unmapped(c, ListOf(mrules.mod, c)) # <<>> => c \in Keys(mout.mod)

\* C13, amended: every (category, identifier) pair of the input without a
\* table entry whose category is not one of the old-schema categories
\* domain, style and arch is under the same category in the result, in the
\* order of the input; a category none of whose items has a table entry and
\* that is no old-schema category keeps its list as it is.
C13_UnmappedPairKeptOutsideOld ==
    last.op = "migrate" =>
        \A c \in Keys(mrules.mod) \ OldCategories :
            /\ KeptInOrder(c)
            /\ c \in Keys(mout.mod)
            /\ c \notin CategoriesOfTable \cup {"templates"} =>
                   ListOf(mout.mod, c) = ListOf(mrules.mod, c)

C13_Witness ==
    /\ last.op = "migrate" /\ nops = 1
    /\ ListOf(mrules.mod, "lang") = <<"python.md", "react.md", "c.md">>
    /\ ListOf(mout.mod, "lang") = <<"python.md">>
    /\ "templates" \in Keys(mout.mod)


(***************************************************************************)
(* SpecHeader: the splice functions applied to bounded documents.  A       *)
(* document is a concatenation of at most MaxDoc pieces: the two markers,  *)
(* a line of user text and a near miss of the start marker.                *)
(***************************************************************************)

MaxDoc == 4

\* the start marker without its closing delimiter
NearMiss == UpTo(CLAUDE_FOUNDRY_MARKER_START, Len(CLAUDE_FOUNDRY_MARKER_START) - 4)

UserLine == <<"x", "\n">>

DocPieces == {CLAUDE_FOUNDRY_MARKER_START, CLAUDE_FOUNDRY_MARKER_END, UserLine, NearMiss}

RECURSIVE DocsOf(_)
DocsOf(n) ==
    IF n = 0 THEN {<<>>}
    ELSE LET shorter == DocsOf(n - 1)
         IN  shorter \cup {d \o piece : d \in shorter, piece \in DocPieces}

Docs == DocsOf(MaxDoc)

Blocks == {Rendered(<<"a">>), Rendered(<<"b">>), <<" ", "y", "\n">>}

InitHeader ==
    /\ tree = EmptyTree
    /\ repo = RepoAll
    /\ psrc = PrivateSources(TRUE)
    /\ sources = <<>>
    /\ manifest = NoManifest
    /\ prev = tree
    /\ nuser = 0
    /\ nops = 0
    /\ last = [op |-> "init", pfx |-> {}, refs |-> <<>>, reg |-> NoRegSel,
               prefix |-> <<>>, path |-> <<>>, sel |-> SelNone, rep |-> EmptyReport,
               res |-> <<>>, ok |-> TRUE]
    /\ cand = <<>> /\ verdict = "none"
    /\ mrules = [has |-> FALSE, mod |-> <<>>] /\ mout = [has |-> FALSE, mod |-> <<>>]
    /\ claude_md \in {File(d) : d \in Docs}
    /\ claude_old = NoFile
    /\ hdr \in Blocks
    /\ rin = NoRender
    /\ mode = NoMode
    /\ mdop = NoMdOp
    /\ NoFaults
    /\ ver = NoVersion /\ menu = NoMenu /\ ua = NoUpdateAll /\ detected = {} /\ ci = NoCall

SpliceUpdate ==
    /\ nops < MaxOps
    /\ nops' = nops + 1
    /\ claude_md' = File(update_claude_foundry_header(claude_md.text, hdr))
    /\ mdop' = MdOp("update")
    /\ UNCHANGED <<tree, repo, psrc, sources, manifest, prev, last, nuser, cand,
                   verdict, mrules, mout, claude_old, hdr, rin, mode, mraw, failing, exc,
                   ver, menu, ua, detected, ci>>

SplicePrepend ==
    /\ nops < MaxOps
    /\ nops' = nops + 1
    /\ claude_md' = File(prepend_claude_foundry_header(claude_md.text, hdr))
    /\ mdop' = MdOp("prepend")
    /\ UNCHANGED <<tree, repo, psrc, sources, manifest, prev, last, nuser, cand,
                   verdict, mrules, mout, claude_old, hdr, rin, mode, mraw, failing, exc,
                   ver, menu, ua, detected, ci>>

NextHeader == SpliceUpdate \/ SplicePrepend

SpecHeader == InitHeader /\ [][NextHeader]_vars

\* the first occurrence of pat in doc is at i
FirstAt(doc, pat, i) ==
    /\ OccursAt(doc, pat, i)
    /\ \A j \in 0..(i - 1) : ~OccursAt(doc, pat, j)

HasBothMarkers(doc) ==
    /\ Contains(doc, CLAUDE_FOUNDRY_MARKER_START)
    /\ Contains(doc, CLAUDE_FOUNDRY_MARKER_END)

\* result is what precedes the first start marker of doc, then block, then
\* what follows the first end marker of doc
SplicedWith(doc, block, result) ==
    \E i, j \in 0..Len(doc) :
        /\ FirstAt(doc, CLAUDE_FOUNDRY_MARKER_START, i)
        /\ FirstAt(doc, CLAUDE_FOUNDRY_MARKER_END, j)
        /\ result = UpTo(doc, i) \o block
                    \o From(doc, j + Len(CLAUDE_FOUNDRY_MARKER_END))

\* h without its first a and last b characters is h without its leading
\* and trailing whitespace
StripsTo(h, a, b) ==
    /\ a + b <= Len(h)
    /\ \A k \in 1..a : h[k] \in Whitespace
    /\ \A k \in (Len(h) - b + 1)..Len(h) : h[k] \in Whitespace
    /\ a + b < Len(h) => (h[a + 1] \notin Whitespace /\ h[Len(h) - b] \notin Whitespace)

\* C14, as stated: after a splice of a document with both markers the text
\* before the start marker and after the end marker is kept and the span
\* between is replaced by the new block itself; without both markers the
\* document is unchanged.
C14_SpanReplacedByBlock ==
    mdop.op = "update" =>
        IF HasBothMarkers(mdop.before.text)
        THEN SplicedWith(mdop.before.text, hdr, claude_md.text)
        ELSE claude_md = mdop.before

\* C14, amended: after a splice of a document with both markers the result
\* is the text before the first start marker, then the new block without
\* its leading and trailing whitespace, then the text after the first end
\* marker; without both markers the document is unchanged (the block is
\* not prepended).
C14_SpanReplacedByStrippedBlock ==
    mdop.op = "update" =>
        IF HasBothMarkers(mdop.before.text)
        THEN \E a, b \in 0..Len(hdr) :
                 /\ StripsTo(hdr, a, b)
                 /\ SplicedWith(mdop.before.text, SubSeq(hdr, a + 1, Len(hdr) - b),
                                claude_md.text)
        ELSE claude_md = mdop.before

\* a block with a final newline was spliced between user text on both sides
C14_Witness ==
    /\ mdop.op = "update"
    /\ mdop.before.text = UserLine \o CLAUDE_FOUNDRY_MARKER_START
                          \o CLAUDE_FOUNDRY_MARKER_END \o UserLine
    /\ hdr = Rendered(<<"a">>)
    /\ claude_md.text = UserLine \o Strip(hdr) \o UserLine

\* C15, as stated: splicing the same rendered block again into the result
\* of a splice of a document with both markers changes nothing.
C15_SpliceIsIdempotent ==
    (/\ mdop.op = "update"
     /\ HasBothMarkers(mdop.before.text)
     /\ IsRendered(hdr))
        => update_claude_foundry_header(claude_md.text, hdr) = claude_md.text


(***************************************************************************)
(* SpecRender: the header rendered from bounded selections: a list of at   *)
(* most MaxRules distinct deployed rules and a set of selected languages.  *)
(***************************************************************************)

MaxRules == 3

\* language rules, the platform rule, base rules with a description and a
\* rule without one
RenderRules ==
    {NODEJS_MD, PYTHON_MD, RUST_MD, GITHUB_MD, CODING_STYLE_MD, TESTING_MD,
     CUSTOM_RULE_MD}
RenderLangs == {NODEJS_MD, PYTHON_MD, RUST_MD}

\* the lists of n distinct rules
RECURSIVE DistinctLists(_)
DistinctLists(n) ==
    IF n = 0 THEN {<<>>}
    ELSE LET shorter == DistinctLists(n - 1)
         IN  shorter \cup {Append(l, r) : l \in {k \in shorter : Len(k) = n - 1},
                                          r \in RenderRules}

RenderInputs ==
    {[rules |-> l, langs |-> g] :
        l \in {k \in DistinctLists(MaxRules) : Cardinality(Range(k)) = Len(k)},
        g \in SUBSET RenderLangs}

InitRender ==
    /\ tree = EmptyTree
    /\ repo = RepoAll
    /\ psrc = PrivateSources(TRUE)
    /\ sources = <<>>
    /\ manifest = NoManifest
    /\ prev = tree
    /\ nuser = 0
    /\ nops = 0
    /\ last = [op |-> "init", pfx |-> {}, refs |-> <<>>, reg |-> NoRegSel,
               prefix |-> <<>>, path |-> <<>>, sel |-> SelNone, rep |-> EmptyReport,
               res |-> <<>>, ok |-> TRUE]
    /\ cand = <<>> /\ verdict = "none"
    /\ mrules = [has |-> FALSE, mod |-> <<>>] /\ mout = [has |-> FALSE, mod |-> <<>>]
    /\ claude_md = NoFile /\ claude_old = NoFile
    /\ hdr = <<>>
    /\ rin \in RenderInputs
    /\ mode = NoMode
    /\ mdop = NoMdOp
    /\ NoFaults
    /\ ver = NoVersion /\ menu = NoMenu /\ ua = NoUpdateAll /\ detected = {} /\ ci = NoCall

Render ==
    /\ nops = 0
    /\ nops' = 1
    /\ hdr' = generate_claude_foundry_header(rin.rules, rin.langs)
    /\ UNCHANGED <<tree, repo, psrc, sources, manifest, prev, last, nuser, cand,
                   verdict, mrules, mout, claude_md, claude_old, rin, mode, mdop,
                   mraw, failing, exc, ver, menu, ua, detected, ci>>

NextRender == Render

SpecRender == InitRender /\ [][NextRender]_vars

\* the orderings of a list
Orderings(l) ==
    {p \in [1..Len(l) -> Range(l)] : \A x \in Range(l) : Count(p, x) = Count(l, x)}

\* a comes before b in alphabetical order
AlphaBefore(a, b) ==
    \E k \in 1..(Len(a) + 1) :
        /\ k <= Len(b)
        /\ \A j \in 1..(k - 1) : a[j] = b[j]
        /\ k <= Len(a) => Ord(a[k]) < Ord(b[k])

\* where the rule is listed in the header
ListedAt(h, rule) == Find(h, <<"U+0060">> \o rule \o <<"U+0060">>)

ListedBefore(a, b) ==
    \/ a \in ToolingRules /\ b \notin ToolingRules
    \/ (a \in ToolingRules <=> b \in ToolingRules) /\ AlphaBefore(a, b)

\* C16: a rendered header is the same for every ordering of its deployed
\* rules, and lists every deployed rule once: the language and platform
\* rules first in alphabetical order, then the other rules in alphabetical
\* order.
C16_RenderIgnoresOrder ==
    hdr # <<>> =>
        /\ \A p \in Orderings(rin.rules) :
               generate_claude_foundry_header(p, rin.langs) = hdr
        /\ \A a \in Range(rin.rules) : ListedAt(hdr, a) # -1
        /\ \A a, b \in Range(rin.rules) :
               (a # b /\ ListedBefore(a, b)) => ListedAt(hdr, a) < ListedAt(hdr, b)

\* a header rendered from rules given with the other rules first and the
\* language rules in reverse
C16_Witness ==
    /\ rin.rules = <<CODING_STYLE_MD, PYTHON_MD, NODEJS_MD>>
    /\ rin.langs = {NODEJS_MD, PYTHON_MD}
    /\ hdr # <<>>
    /\ IsRendered(hdr)
    /\ ListedAt(hdr, NODEJS_MD) < ListedAt(hdr, PYTHON_MD)
    /\ ListedAt(hdr, PYTHON_MD) < ListedAt(hdr, CODING_STYLE_MD)
    /\ Find(hdr, RuleLine(NODEJS_MD)) # -1
    /\ Find(hdr, ENVIRONMENT_SNIPPETS[NODEJS_MD].setup \o SetupComment) # -1
    /\ Find(hdr, ENVIRONMENT_SNIPPETS[NODEJS_MD].setup)
           < Find(hdr, ENVIRONMENT_SNIPPETS[PYTHON_MD].setup)


(***************************************************************************)
(* SpecClaudeMd: cmd_init on a fresh project whose CLAUDE.md is absent,    *)
(* empty, blank, user text, a near miss of the marker, a document with the *)
(* header block or one with the start marker alone, in every mode and with *)
(* every answer.                                                           *)
(***************************************************************************)

Blank == <<" ", "\n">>

InitDocs ==
    {NoFile, File(<<>>), File(Blank), File(UserLine), File(NearMiss),
     File(UserLine \o Rendered(<<"a">>) \o UserLine),
     File(UserLine \o CLAUDE_FOUNDRY_MARKER_START \o UserLine)}

Answers == {"", "y", "n"}
Choices == {"Q", "R", "M", "", "X"}

Modes ==
    {Mode(FALSE, f, a, "") : f \in BOOLEAN, a \in Answers}
        \cup {Mode(TRUE, FALSE, "y", c) : c \in Choices}
        \cup {Mode(TRUE, FALSE, "n", "M"), Mode(TRUE, TRUE, "", "")}

\* a project before its first cmd_init: CLAUDE.md in one of the states
\* above, no CLAUDE.md.old; CLAUDE.md.old can be written or not (it is a
\* directory, say), CLAUDE.md itself can
InitClaudeMd ==
    /\ tree = EmptyTree
    /\ repo = RepoAll
    /\ psrc = PrivateSources(TRUE)
    /\ sources = <<>>
    /\ manifest = NoManifest
    /\ prev = tree
    /\ nuser = 0
    /\ nops = 0
    /\ last = [op |-> "init", pfx |-> {}, refs |-> <<>>, reg |-> NoRegSel,
               prefix |-> <<>>, path |-> <<>>, sel |-> SelNone, rep |-> EmptyReport,
               res |-> <<>>, ok |-> TRUE]
    /\ cand = <<>> /\ verdict = "none"
    /\ mrules = [has |-> FALSE, mod |-> <<>>] /\ mout = [has |-> FALSE, mod |-> <<>>]
    /\ claude_md \in InitDocs
    /\ claude_old = NoFile
    /\ hdr = <<>>
    /\ rin = NoRender
    /\ mode = NoMode
    /\ mdop = NoMdOp
    /\ mraw = AsSaved /\ exc = "none"
    /\ failing \in {{}, {CLAUDE_MD_OLD}}
    /\ ver = NoVersion /\ menu = NoMenu /\ ua = NoUpdateAll /\ ci = NoCall
    /\ detected \in {{}, {PYTHON_MD}}

\* what CLAUDE.md is made by someone else while cmd_init waits: deleted,
\* added to, given the header block
EditDocs == {NoFile, File(UserLine \o UserLine), File(Rendered(<<"a">>) \o UserLine)}

NextClaudeMd ==
    \/ \E m \in Modes : cmd_init(m)
    \/ CmdInitSteps({FullSelection(repo)})
    \/ \E doc \in EditDocs : EditClaudeMd(doc)

SpecClaudeMd == InitClaudeMd /\ [][NextClaudeMd]_vars

\* the last cmd_init put its header and a newline in front of the CLAUDE.md
\* it read
Prepended ==
    /\ last.op = "cmd_init"
    /\ mdop.read.exists
    /\ claude_md = File(hdr \o <<"\n">> \o mdop.read.text)

\* C17: cmd_init prepends the header only to a CLAUDE.md without the start
\* marker, and only when the caller gave explicit consent: interactively, by
\* choosing M at the [R/M/Q] prompt, or with --force, by y or yes to the
\* force prompt.  No other input leads to a prepend.
C17_PrependNeedsConsent ==
    Prepended =>
        /\ ~Contains(mdop.read.text, CLAUDE_FOUNDRY_MARKER_START)
        /\ \/ mode.interactive /\ mode.choice = "M"
           \/ ~mode.interactive /\ mode.force /\ mode.answer \in {"y", "yes"}

\* C18: a non-interactive cmd_init without --force that finds a CLAUDE.md
\* without the start marker returns False, leaves CLAUDE.md as it was and
\* CLAUDE.md.old as it was (absent if it was absent).
C18_BatchSkipsUnmarked ==
    (/\ last.op = "cmd_init"
     /\ ~mode.interactive /\ ~mode.force
     /\ mdop.before.exists
     /\ ~Contains(mdop.before.text, CLAUDE_FOUNDRY_MARKER_START))
        => /\ ~last.ok
           /\ claude_md = mdop.before
           /\ claude_old = mdop.old

\* a non-interactive run without --force found a blank CLAUDE.md and no
\* CLAUDE.md.old
C18_Witness ==
    /\ last.op = "cmd_init"
    /\ mode = Batch
    /\ mdop.before = File(Blank)
    /\ mdop.old = NoFile
    /\ ~last.ok
    /\ claude_md = File(Blank)
    /\ claude_old = NoFile


(***************************************************************************)
(* SpecFaults: cmd_init(project, interactive=False) on a project whose     *)
(* setup-manifest.json was replaced by some other content, or whose rule   *)
(* files cannot all be written.                                            *)
(***************************************************************************)

Raw(kind) == [kind |-> kind]
Json(v) == [kind |-> "json", value |-> v]

ManifestContents ==
    <<AsSaved, Raw("absent"), Raw("invalid"), Raw("unreadable"), Raw("writeonly"),
      Raw("undecodable"), Raw("nested"), Raw("hugeint"),
      Json(JNull), Json(JNum(0)), Json(JNum(1)), Json(JBool(TRUE)),
      Json(JStr(<<>>)), Json(JStr(<<"a">>)),
      Json(JList(<<>>)), Json(JList(<<JNum(1)>>)),
      Json(JObj(<<>>)),
      Json(JObj("x" :> JNum(1))),
      Json(JObj("base_rules" :> JList(<<JStr(T_MD)>>))),
      Json(JObj("base_rules" :> JStr(T_MD))),
      Json(JObj("base_rules" :> JNum(5))),
      Json(JObj("base_rules" :> JNull)),
      Json(JObj("modular_rules" :> JList(<<>>))),
      Json(JObj("modular_rules" :> JObj(LANG :> JList(<<JStr(PYTHON_MD)>>)))),
      Json(JObj("hooks" :> JObj(H_SH :> JNum(1)))),
      Json(JObj("hooks" :> JNum(5))),
      Json(JObj("plugins" :> JNum(5))),
      Json(JObj("plugins" :> JNull)),
      Json(JObj("plugins" :> JList(<<JStr(FEATURE_DEV)>>))),
      Json(JObj("mcp_servers" :> JNum(5))),
      Json(JObj("mcp_servers" :> JList(<<JStr(MCP_M)>>)))>>

Unwritable == SUBSET {T_MD, PYTHON_MD}

InitFaults ==
    /\ tree = EmptyTree
    /\ repo \in {RepoAll, RepoAll \cup {McpServersFile}}
    /\ psrc = PrivateSources(TRUE)
    /\ sources = <<>>
    /\ \E i \in 1..Len(ManifestContents) : mraw = ManifestContents[i]
    /\ manifest = IF mraw = AsSaved THEN SavedManifest(NoRegSel) ELSE NoManifest
    /\ failing \in Unwritable
    /\ exc = "none"
    /\ prev = tree
    /\ nuser = 0
    /\ nops = 0
    /\ last = [op |-> "init", pfx |-> {}, refs |-> <<>>, reg |-> NoRegSel,
               prefix |-> <<>>, path |-> <<>>, sel |-> SelNone, rep |-> EmptyReport,
               res |-> <<>>, ok |-> TRUE]
    /\ cand = <<>> /\ verdict = "none"
    /\ mrules = [has |-> FALSE, mod |-> <<>>] /\ mout = [has |-> FALSE, mod |-> <<>>]
    /\ claude_md = NoFile /\ claude_old = NoFile
    /\ hdr = <<>> /\ rin = NoRender /\ mode = NoMode /\ mdop = NoMdOp
    /\ ver = NoVersion /\ menu = NoMenu /\ ua = NoUpdateAll /\ ci = NoCall
    /\ detected \in {{}, {PYTHON_MD}}

NextFaults ==
    \/ \E m \in {Batch, Interactive} : cmd_init(m)
    \/ CmdInitVersion
    \/ CmdInitMenus(FullSelection(repo))
    \/ CmdInitChoice
    \/ CmdInitOverwrite
    \/ \E doc \in EditDocs : EditClaudeMd(doc)

SpecFaults == InitFaults /\ [][NextFaults]_vars

\* a list of str
IsNameList(v) ==
    v.t = "list" /\ \A i \in 1..Len(v.l) : v.l[i].t = "str"

\* an object of the shape save_manifest writes: lists of names under the
\* selection keys, an object of such lists under modular_rules
IsSelectionRecord(v) ==
    \/ v.t = "saved"
    \/ /\ v.t = "obj"
       /\ \A k \in DOMAIN v.o \cap {"base_rules", "hooks", "agents", "skills",
                                    "learned_categories", "plugins", "mcp_servers"} :
              IsNameList(v.o[k])
       /\ "modular_rules" \in DOMAIN v.o =>
              /\ v.o["modular_rules"].t = "obj"
              /\ \A c \in DOMAIN v.o["modular_rules"].o :
                     IsNameList(v.o["modular_rules"].o[c])

Malformed(raw) ==
    \/ raw.kind \in {"invalid", "unreadable", "writeonly", "undecodable", "nested",
                    "hugeint"}
    \/ raw.kind = "json" /\ ~IsSelectionRecord(raw.value)

\* C19: a cmd_init that found a malformed or unreadable manifest, and every
\* file writable, raised nothing.
C19_MalformedManifestNeverFatal ==
    (last.op = "cmd_init" /\ Malformed(mdop.raw) /\ failing = {}) => exc = "none"

\* the rule files of the last selection that could not be written
FailedWrites == DesiredNames("rules", last.reg, repo) \cap failing

\* C20: a cmd_init one of whose rule files could not be written raised
\* nothing and returned False, with every other selected item of the rules
\* and of the later categories in place.
C20_WriteFailureDoesNotAbort ==
    (/\ last.op = "cmd_init"
     /\ ~Malformed(mdop.raw)
     /\ FailedWrites # {})
        => /\ exc = "none"
           /\ ~last.ok
           /\ \A d \in Dirs :
                  DesiredNames(d, last.reg, repo) \ FailedWrites \subseteq Listing(tree, d)

(***************************************************************************)
(* copy_rules with colliding filenames: a base rule and rules of two       *)
(* modular categories share the filename t.md.                             *)
(***************************************************************************)
CollideRepo ==
    {Src("rules", <<>>, T_MD), Src("lib", LANG, T_MD), Src("lib", W_PLATFORM, T_MD),
     Src("lib", LANG, PYTHON_MD)}

\* the categories of the calls, and the rules each can be given
CollideCategories == <<LANG, W_PLATFORM>>
CollideRules(cat) == IF cat = LANG THEN <<T_MD, PYTHON_MD>> ELSE <<T_MD>>

\* the modular dicts of the calls: the categories in either order
CollideModulars ==
    LET item(c, rules) == IF rules = <<>> THEN <<>> ELSE <<[cat |-> c, rules |-> rules]>>
    IN  UNION {{item(c[1], a) \o item(c[2], b) :
                   a \in SubLists(CollideRules(c[1])), b \in SubLists(CollideRules(c[2]))} :
               c \in {CollideCategories, <<W_PLATFORM, LANG>>}}

InitCollide ==
    /\ tree \in {EmptyTree, SetEnts(EmptyTree, "rules", Put(NoEnts, T_MD, UserContent))}
    /\ repo \in {CollideRepo \ m : m \in SUBSET {Src("rules", <<>>, T_MD)}}
    /\ psrc = PrivateSources(TRUE)
    /\ sources = <<>>
    /\ manifest = NoManifest
    /\ prev = tree
    /\ nuser = 0
    /\ nops = 0
    /\ last = [op |-> "init", pfx |-> {}, refs |-> <<>>, reg |-> NoRegSel, prefix |-> <<>>,
               path |-> <<>>, sel |-> SelNone, rep |-> EmptyReport, res |-> <<>>,
               ok |-> TRUE]
    /\ Idle

NextCollide ==
    \E b \in SubLists(<<T_MD>>) : \E m \in CollideModulars : CopyRules(b, m)

SpecCollide == InitCollide /\ [][NextCollide]_vars

\* the rules directory when the j-th modular rule of the last copy_rules is
\* about to be deployed, and when it has been
RulesBefore(j) ==
    copy_rules(prev, repo, last.reg.base, UpTo(AsItems(last.reg.modular), j - 1))["rules"].ents
RulesAfter(j) ==
    copy_rules(prev, repo, last.reg.base, UpTo(AsItems(last.reg.modular), j))["rules"].ents

\* content that belongs to a category other than cat: a base rule, or a
\* rule of another modular category
OfOtherCategory(content, cat) ==
    /\ content.o = "repo"
    /\ content.k = "rules" \/ (content.k = "lib" /\ content.c # cat)

\* C21: whenever copy_rules deploys a modular rule while the rules directory
\* holds an entry of the same bare filename that belongs to a different
\* category, the rule is written as <category>-<identifier> and the entry
\* that was there keeps its content.
C21_NoSilentOverwrite ==
    last.op = "copy_rules" =>
        \A j \in 1..Len(AsItems(last.reg.modular)) :
            LET it == AsItems(last.reg.modular)[j]
                rule == it.rules[1]
                src == Src("lib", it.cat, rule)
                before == RulesBefore(j)
                after == RulesAfter(j)
            IN  (/\ src \in repo
                 /\ rule \in DOMAIN before
                 /\ OfOtherCategory(before[rule], it.cat))
                => /\ (it.cat \o HY \o rule) \in DOMAIN after
                   /\ after[it.cat \o HY \o rule] = src
                   /\ after[rule] = before[rule]

(***************************************************************************)
(* toggle_menu(title, items, selected, required_one).  The parameter       *)
(* selected is bound to the set object the caller passed, and              *)
(* "selected ^= {idx}" is set.__ixor__, which changes that object in place *)
(* and leaves selected bound to it: menu.arg is the object's contents,     *)
(* menu.given what it held when the call was made.                         *)
(***************************************************************************)
MaxLines == 2
MaxTokens == 2

\* len(items)
MenuItems == 3

\* the tokens of an input line: a number as int() reads it, or a word
Number(v) == [int |-> TRUE, val |-> v]
Word == [int |-> FALSE, val |-> 0]
Tokens == {Number(v) : v \in 0..(MenuItems + 1)} \cup {Word}
InputLines == UNION {[1..n -> Tokens] : n \in 1..MaxTokens}

SymDiff(a, b) == (a \ b) \cup (b \ a)

\* one token of the for loop: idx = int(token) - 1, toggled when in range
ToggleToken(selected, token) ==
    LET idx == token.val - 1
    IN  IF token.int /\ 0 <= idx /\ idx < MenuItems
        THEN SymDiff(selected, {idx})
        ELSE selected

\* for token in raw.split()
RECURSIVE ToggleTokens(_, _, _)
ToggleTokens(selected, tokens, i) ==
    IF i > Len(tokens) THEN selected
    ELSE ToggleTokens(ToggleToken(selected, tokens[i]), tokens, i + 1)

InitMenu ==
    /\ tree = EmptyTree
    /\ repo = RepoAll
    /\ psrc = PrivateSources(TRUE)
    /\ sources = <<>>
    /\ manifest = NoManifest
    /\ prev = tree
    /\ nuser = 0
    /\ nops = 0
    /\ last = [op |-> "init", pfx |-> {}, refs |-> <<>>, reg |-> NoRegSel, prefix |-> <<>>,
               path |-> <<>>, sel |-> SelNone, rep |-> EmptyReport, res |-> <<>>,
               ok |-> TRUE]
    /\ Idle

menuframe == <<tree, repo, psrc, sources, manifest, prev, last, nuser, nops, cand, verdict,
               mrules, mout, claude_md, claude_old, hdr, rin, mode, mdop, mraw, failing,
               exc, ver, ua, detected, ci>>

\* the call: selected is bound to the caller's set
ToggleMenuCall(initial, required_one) ==
    /\ menu.pc = "idle"
    /\ menu' = [pc |-> "prompt", required_one |-> required_one, arg |-> initial,
                given |-> initial, lines |-> 0, returned |-> {}]
    /\ UNCHANGED menuframe

\* a non-empty line is typed: its tokens are toggled in the set object
ToggleMenuLine(tokens) ==
    /\ menu.pc = "prompt"
    /\ menu.lines < MaxLines
    /\ menu' = [menu EXCEPT !.arg = ToggleTokens(menu.arg, tokens, 1),
                            !.lines = menu.lines + 1]
    /\ UNCHANGED menuframe

\* Enter: the menu is shown again if a selection is required and there is
\* none, else selected is returned
ToggleMenuEnter ==
    /\ menu.pc = "prompt"
    /\ IF menu.required_one /\ menu.arg = {}
       THEN menu' = menu
       ELSE menu' = [menu EXCEPT !.pc = "returned", !.returned = menu.arg]
    /\ UNCHANGED menuframe

NextMenu ==
    \/ \E initial \in SUBSET (0..(MenuItems - 1)) : \E required_one \in BOOLEAN :
           ToggleMenuCall(initial, required_one)
    \/ \E tokens \in InputLines : ToggleMenuLine(tokens)
    \/ ToggleMenuEnter

SpecMenu == InitMenu /\ [][NextMenu]_vars

\* C22: toggle_menu never mutates the set it was handed: when it returns,
\* the set object passed as selected holds what it held at the call.
C22_CallerSetUnchanged ==
    menu.pc = "returned" => menu.arg = menu.given

(***************************************************************************)
(* The order of the steps of one run of cmd_init, and what a run that      *)
(* returns False leaves behind (checked under SpecClaudeMd).               *)
(***************************************************************************)

\* the text from the first start marker through the first end marker
BlockOf(doc) ==
    LET s == Find(doc, CLAUDE_FOUNDRY_MARKER_START)
        e == Find(doc, CLAUDE_FOUNDRY_MARKER_END)
    IN  IF s = -1 \/ e = -1 \/ e < s THEN <<>>
        ELSE SubSeq(doc, s + 1, e + Len(CLAUDE_FOUNDRY_MARKER_END))

\* CLAUDE.md carries the header rendered in the last run
HeaderCurrent == claude_md.exists /\ BlockOf(claude_md.text) = Strip(hdr)

\* C23: the manifest is persisted only after the copies and after CLAUDE.md
\* was updated: no run of cmd_init ends with a newly written manifest while
\* CLAUDE.md does not carry the header of that run.
C23_ManifestWrittenLast ==
    (last.op = "cmd_init" /\ manifest # mdop.saved) => HeaderCurrent

\* a run of cmd_init has ended, or has written CLAUDE.md.old and is about
\* to overwrite CLAUDE.md: in the Replace, Merge and force-merge paths
\* CLAUDE.md.old holds the content the run read, and in every other run
\* (marker update, new CLAUDE.md, skipped or aborted run, failed backup)
\* CLAUDE.md.old is what it was, absent if it was absent; when nobody else
\* wrote CLAUDE.md during the run, that content is the CLAUDE.md the call
\* found.
BackupIffOverwritten ==
    /\ last.op = "cmd_init" =>
           /\ IF mdop.op \in {"replace", "prepend"}
              THEN /\ mdop.read.exists
                   /\ ~Contains(mdop.read.text, CLAUDE_FOUNDRY_MARKER_START)
                   /\ claude_old = mdop.read
              ELSE claude_old = mdop.old
           /\ mdop.edits = 0 =>
                  IF /\ mdop.before.exists
                     /\ ~Contains(mdop.before.text, CLAUDE_FOUNDRY_MARKER_START)
                     /\ claude_md # mdop.before
                  THEN claude_old = mdop.before
                  ELSE claude_old = mdop.old
    /\ ci.pc = "overwrite" =>
           /\ claude_old = File(ci.content)
           /\ ci.edits = 0 => claude_md = mdop.before

\* a step of someone else, not of cmd_init
EditStep == ci'.pc = ci.pc /\ ci'.edits # ci.edits

\* a step of cmd_init that changes a CLAUDE.md without the marker finds the
\* content the run read in CLAUDE.md.old already, which is the content it
\* overwrites when nobody else wrote CLAUDE.md during the run
BackupPrecedesOverwrite ==
    (/\ claude_md' # claude_md
     /\ ~EditStep
     /\ claude_md.exists
     /\ ~Contains(claude_md.text, CLAUDE_FOUNDRY_MARKER_START)) =>
        /\ claude_old = File(ci.content)
        /\ claude_old' = claude_old
        /\ ci.edits = 0 => claude_old = claude_md

\* C25: CLAUDE.md.old is written exactly when a CLAUDE.md without the marker
\* is overwritten: in the Replace, Merge and force-merge paths the original
\* content is in CLAUDE.md.old before the step that overwrites CLAUDE.md,
\* and in the marker-update path, the create-new path and every skipped or
\* aborted run CLAUDE.md.old is what it was, absent if it was absent.
C25_BackupIffOverwritten ==
    []BackupIffOverwritten /\ [][BackupPrecedesOverwrite]_vars

\* C25 witness: the Replace path on user text wrote CLAUDE.md.old where
\* there was none, and CLAUDE.md is the generated file.
C25_Witness ==
    /\ last.op = "cmd_init" /\ mdop.op = "replace"
    /\ mdop.before = File(UserLine) /\ mdop.old = NoFile
    /\ claude_old = File(UserLine)
    /\ claude_md = File(generate_claude_md(ProjectName, rin.rules, rin.langs))

\* C27: a cmd_init that returns False has changed nothing: the .claude/
\* tree, the manifest, VERSION and CLAUDE.md are as before the call.
C27_FalseChangesNothing ==
    (last.op = "cmd_init" /\ ~last.ok /\ exc = "none") =>
        /\ tree = prev
        /\ manifest = mdop.saved /\ mraw = mdop.raw
        /\ ver.project = mdop.version
        /\ mdop.edits = 0 => claude_md = mdop.before
        /\ claude_old = mdop.old

\* C28: after cmd_init returns True for a project whose CLAUDE.md contained
\* the start marker, the text from the start marker through the end marker
\* is the header rendered from the selections of that run.
C28_BlockIsCurrent ==
    (/\ last.op = "cmd_init" /\ last.ok
     /\ mdop.read.exists
     /\ Contains(mdop.read.text, CLAUDE_FOUNDRY_MARKER_START))
    => HeaderCurrent

(***************************************************************************)
(* SpecVersion: cmd_init on projects that record a version, against each   *)
(* version of the repository, in every mode.                               *)
(***************************************************************************)
V_0_9_1 == <<"0", ".", "9", ".", "1">>
Versions == {V_0_9_0, V_0_9_1, V_0_10_0}

InitVersion ==
    /\ tree = EmptyTree
    /\ repo = RepoAll
    /\ psrc = PrivateSources(TRUE)
    /\ sources = <<>>
    /\ manifest = NoManifest
    /\ prev = tree
    /\ nuser = 0
    /\ nops = 0
    /\ last = [op |-> "init", pfx |-> {}, refs |-> <<>>, reg |-> NoRegSel,
               prefix |-> <<>>, path |-> <<>>, sel |-> SelNone, rep |-> EmptyReport,
               res |-> <<>>, ok |-> TRUE]
    /\ cand = <<>> /\ verdict = "none"
    /\ mrules = [has |-> FALSE, mod |-> <<>>] /\ mout = [has |-> FALSE, mod |-> <<>>]
    /\ claude_md = NoFile /\ claude_old = NoFile
    /\ hdr = <<>> /\ rin = NoRender /\ mode = NoMode /\ mdop = NoMdOp
    /\ NoFaults
    /\ ver \in [repo : Versions,
                project : {NoFile, File(V_0_9_1 \o <<"U+00A0", "\n">>)}
                          \cup {File(v \o <<"\n">>) : v \in Versions}]
    /\ menu = NoMenu /\ ua = NoUpdateAll /\ detected = {} /\ ci = NoCall

NextVersion ==
    \/ \E m \in Modes : cmd_init(m)
    \/ CmdInitVersion
    \/ CmdInitMenus(FullSelection(repo))

SpecVersion == InitVersion /\ [][NextVersion]_vars

\* the numbers of a version string, as a release order reads them
Digits == <<"0", "1", "2", "3", "4", "5", "6", "7", "8", "9">>
DigitValue(ch) == (CHOOSE i \in 1..Len(Digits) : Digits[i] = ch) - 1
RECURSIVE VersionNumbers(_, _, _)
VersionNumbers(v, i, n) ==
    IF i > Len(v) THEN <<n>>
    ELSE IF v[i] = "." THEN <<n>> \o VersionNumbers(v, i + 1, 0)
    ELSE VersionNumbers(v, i + 1, n * Len(Digits) + DigitValue(v[i]))

\* a is a later release than b
RECURSIVE NumbersGreater(_, _)
NumbersGreater(a, b) ==
    IF a = <<>> THEN FALSE
    ELSE IF b = <<>> THEN TRUE
    ELSE IF Head(a) = Head(b) THEN NumbersGreater(Tail(a), Tail(b))
    ELSE Head(a) > Head(b)
Newer(a, b) == NumbersGreater(VersionNumbers(a, 1, 0), VersionNumbers(b, 1, 0))

\* C29: cmd_init never downgrades a project: when .claude/VERSION records a
\* version newer than the repository's, cmd_init returns False and leaves
\* VERSION and the deployed content as they were, in interactive and in
\* non-interactive mode.
C29_NeverDowngrades ==
    (/\ last.op = "cmd_init"
     /\ mdop.version.exists
     /\ Newer(Strip(mdop.version.text), ver.repo))
    => /\ ~last.ok
       /\ ver.project = mdop.version
       /\ tree = prev

(***************************************************************************)
(* SpecReinit: cmd_init(project, interactive=False), twice in a row, on    *)
(* projects with and without a manifest, whose files show a language or    *)
(* none.                                                                   *)
(***************************************************************************)
ReinitSaved ==
    {NoRegSel, FullSelection(RepoAll),
     RegSel(<<T_MD>>, <<>>, <<>>, <<>>, <<>>, <<>>),
     RegSel(<<Z_MD, T_MD>>, <<[cat |-> LANG, rules |-> <<Z_MD>>]>>, <<Z_MD, G_MD>>,
            <<>>, <<CAT_C>>, <<>>)}

ReinitFiles ==
    {Raw("absent"), Raw("invalid"),
     Json(JObj(<<>>)),
     Json(JObj("version" :> JStr(V_0_9_0))),
     Json(JObj("base_rules" :> JList(<<JStr(Z_MD), JStr(T_MD), JStr(T_MD)>>))),
     Json(JObj("modular_rules" :> JObj(LANG :> JList(<<JStr(PYTHON_MD)>>))
               @@ "hooks" :> JList(<<JStr(H_SH)>>))),
     Json(JObj("plugins" :> JList(<<JStr(PYRIGHT_LSP), JStr(FEATURE_DEV)>>)
               @@ "mcp_servers" :> JList(<<JStr(MCP_M)>>)))}

\* REPO_ROOT whole, without its agent, without its language rule, with
\* mcp-configs/mcp-servers.json
ReinitRepos ==
    {RepoAll, RepoAll \ {Src("agents", <<>>, G_MD)}, RepoAll \ {Src("lib", LANG, PYTHON_MD)},
     RepoAll \cup {McpServersFile}}

InitReinit ==
    /\ tree = EmptyTree
    /\ repo \in ReinitRepos
    /\ psrc = PrivateSources(TRUE)
    /\ sources = <<>>
    /\ \/ mraw = AsSaved /\ manifest \in {SavedManifest(sel) : sel \in ReinitSaved}
       \/ mraw \in ReinitFiles /\ manifest = NoManifest
    /\ detected \in SUBSET (Range(TriedLangs) \cup Range(MODULAR_RULES[W_PLATFORM]))
    /\ ci = NoCall
    /\ prev = tree
    /\ nuser = 0
    /\ nops = 0
    /\ last = [op |-> "init", pfx |-> {}, refs |-> <<>>, reg |-> NoRegSel,
               prefix |-> <<>>, path |-> <<>>, sel |-> SelNone, rep |-> EmptyReport,
               res |-> <<>>, ok |-> TRUE]
    /\ cand = <<>> /\ verdict = "none"
    /\ mrules = [has |-> FALSE, mod |-> <<>>] /\ mout = [has |-> FALSE, mod |-> <<>>]
    /\ claude_md \in {NoFile, File(UserLine)} /\ claude_old = NoFile
    /\ hdr = <<>> /\ rin = NoRender /\ mode = NoMode /\ mdop = NoMdOp
    /\ failing = {} /\ exc = "none"
    /\ ver = NoVersion /\ menu = NoMenu /\ ua = NoUpdateAll

\* cmd_init(project, interactive=False, force), and the answer the confirm()
\* of --force is given
CmdInitBatch(force, answer) == cmd_init(Mode(FALSE, force, answer, ""))

NextReinit ==
    \/ \E force \in BOOLEAN : \E answer \in {"", "y"} : CmdInitBatch(force, answer)
    \/ CmdInitForce
    \/ CmdInitOverwrite

SpecReinit == InitReinit /\ [][NextReinit]_vars

\* the manifest the last run loaded, and the names it holds under a key
LoadedBefore == load_manifest(mdop.raw, mdop.saved).value
SavedNames(manifest_key, manifest_sub) ==
    IF LoadedBefore.t = "saved"
    THEN Range(SavedField(mdop.saved.sel, manifest_key, manifest_sub))
    ELSE LET o == LoadedBefore.o
             v == IF manifest_key \notin DOMAIN o THEN JList(<<>>)
                  ELSE IF manifest_sub = "" THEN o[manifest_key]
                  ELSE IF manifest_sub \in DOMAIN o[manifest_key].o
                  THEN o[manifest_key].o[manifest_sub]
                  ELSE JList(<<>>)
         IN  {v.l[i].s : i \in 1..Len(v.l)}

\* the list is the registry's items that are among the names, in the
\* registry's order
SavedOfRegistry(list, registry_items, names) ==
    list = SelectSeq(registry_items, LAMBDA item : item \in names)

ModularRulesOf(sel, category) ==
    Flatten([i \in 1..Len(sel.modular) |->
                IF sel.modular[i].cat = category THEN sel.modular[i].rules ELSE <<>>])

\* the selections of the last run are what the loaded manifest saved, and
\* the manifest on disk is the dict of that run
UsesSavedSelections ==
    /\ SavedOfRegistry(last.reg.base, BASE_RULES, SavedNames("base_rules", ""))
    /\ \A c \in Range(ModularCategories) :
           SavedOfRegistry(ModularRulesOf(last.reg, c), MODULAR_RULES[c],
                           SavedNames("modular_rules", c))
    /\ SavedOfRegistry(last.reg.hooks, HOOK_SCRIPTS, SavedNames("hooks", ""))
    /\ SavedOfRegistry(last.reg.agents, AgentFilesOf(repo), SavedNames("agents", ""))
    /\ SavedOfRegistry(last.reg.skills, SKILLS, SavedNames("skills", ""))
    /\ SavedOfRegistry(last.reg.learned, LearnedCategories(repo),
                       SavedNames("learned_categories", ""))
    /\ SavedOfRegistry(last.reg.plugins, AllPlugins(SelectedLangs(last.reg)),
                       SavedNames("plugins", ""))
    /\ SavedOfRegistry(last.reg.mcp_servers, McpNames(repo), SavedNames("mcp_servers", ""))
    /\ last.ok => manifest = SavedManifest(last.reg) /\ mraw = AsSaved

\* the last run was a non-interactive cmd_init that loaded a manifest
ReinitRun ==
    /\ last.op = "cmd_init" /\ ~mode.interactive /\ exc = "none"
    /\ LoadedBefore.t \in {"saved", "obj"}
    /\ IsSelectionRecord(LoadedBefore)

\* C24 as stated: in a non-interactive cmd_init with a loadable manifest,
\* each selection is exactly the manifest's saved items that exist in the
\* registry, nothing detected is added, and the manifest written at the end
\* holds the selections applied.
C24_ReinitUsesSaved ==
    ReinitRun => UsesSavedSelections

\* C24, amended: the same for a manifest that is not the empty object.
C24_ReinitUsesNonEmptySaved ==
    (ReinitRun /\ Truthy(LoadedBefore)) => UsesSavedSelections

\* C24 witness: the project's files show a language the manifest had not
\* saved; the run selected the saved base rule alone, dropped the saved
\* names the registry does not have, and wrote that selection.
C24_Witness ==
    /\ ReinitRun /\ last.ok
    /\ detected = {PYTHON_MD}
    /\ mdop.saved.written /\ mdop.saved.sel.base = <<Z_MD, T_MD>>
    /\ last.reg.base = <<T_MD>> /\ last.reg.modular = <<>>
    /\ last.reg.agents = <<G_MD>>
    /\ manifest = SavedManifest(last.reg)

(***************************************************************************)
(* cmd_update_all: the projects found by discover_projects, each with the  *)
(* state of its own directory; the selection made in the menu; the loop    *)
(* over the selected indices, one cmd_init per project, and the four       *)
(* result lists.  The variables of cmd_init hold the project at hand.      *)
(***************************************************************************)
MaxProjects == 2

Project(t, saved, raw, md, version, unwritable, langs) ==
    [tree |-> t, manifest |-> saved, mraw |-> raw, claude_md |-> md, claude_old |-> NoFile,
     version |-> version, failing |-> unwritable, detected |-> langs]

\* a project set up before, one whose CLAUDE.md has no marker, one never set
\* up, one whose manifest is not a dict, one whose rules cannot be written,
\* one whose manifest is not UTF-8, and one with an empty manifest, a
\* VERSION and a CLAUDE.md without the marker
ProjectStates ==
    {Project(EmptyTree, SavedManifest(FullSelection(RepoAll)), AsSaved, NoFile,
             File(V_0_9_0 \o <<"\n">>), {}, {}),
     Project(EmptyTree, SavedManifest(NoRegSel), AsSaved, File(UserLine),
             File(V_0_9_0 \o <<"\n">>), {}, {}),
     Project(EmptyTree, NoManifest, Raw("absent"), NoFile, NoFile, {}, {PYTHON_MD}),
     Project(EmptyTree, NoManifest, Json(JStr(<<"a">>)), NoFile, NoFile, {}, {}),
     Project(EmptyTree, SavedManifest(FullSelection(RepoAll)), AsSaved, NoFile,
             NoFile, {T_MD}, {}),
     Project(EmptyTree, NoManifest, Raw("undecodable"), NoFile, NoFile, {}, {}),
     Project(EmptyTree, NoManifest, Json(JObj(<<>>)), File(UserLine),
             File(V_0_9_0 \o <<"\n">>), {}, {})}

ProjectLists == UNION {[1..n -> ProjectStates] : n \in 0..MaxProjects}

InitUpdateAll ==
    /\ tree = EmptyTree
    /\ repo = RepoAll
    /\ psrc = PrivateSources(TRUE)
    /\ sources = <<>>
    /\ manifest = NoManifest
    /\ prev = tree
    /\ nuser = 0
    /\ nops = 0
    /\ last = [op |-> "init", pfx |-> {}, refs |-> <<>>, reg |-> NoRegSel, prefix |-> <<>>,
               path |-> <<>>, sel |-> SelNone, rep |-> EmptyReport, res |-> <<>>,
               ok |-> TRUE]
    /\ cand = <<>> /\ verdict = "none"
    /\ mrules = [has |-> FALSE, mod |-> <<>>] /\ mout = [has |-> FALSE, mod |-> <<>>]
    /\ claude_md = NoFile /\ claude_old = NoFile
    /\ hdr = <<>> /\ rin = NoRender /\ mode = NoMode /\ mdop = NoMdOp
    /\ NoFaults
    /\ ver = NoVersion /\ menu = NoMenu /\ detected = {} /\ ci = NoCall
    /\ \E projects \in ProjectLists : \E force \in BOOLEAN :
           ua = [NoUpdateAll EXCEPT !.projects = projects, !.force = force]

updateframe == <<repo, psrc, sources, prev, nuser, cand, verdict, mrules, mout, hdr, rin,
                 mode, mdop, exc, menu, ci>>
projectvars == <<tree, manifest, mraw, claude_md, claude_old, failing, detected, ci>>

\* the selected indices not yet processed
Remaining(u) == u.selected \ Range(u.order)

\* cmd_update_all up to the menu: without projects it returns; the labels
\* are built, which loads every project's manifest; then it waits in the
\* input() of toggle_menu
UpdateAllLabels ==
    /\ ua.pc = "idle"
    /\ ua' = IF ua.projects = <<>> THEN [ua EXCEPT !.pc = "returned"]
             ELSE IF \E i \in DOMAIN ua.projects :
                        load_manifest(ua.projects[i].mraw,
                                      ua.projects[i].manifest).raised # "none"
             THEN [ua EXCEPT !.pc = "raised"]
             ELSE [ua EXCEPT !.pc = "menu"]
    /\ UNCHANGED <<updateframe, projectvars, ver, last, nops>>

\* toggle_menu returns the selection: without a selected project
\* cmd_update_all returns, otherwise the loop begins
UpdateAllSelect(selected) ==
    /\ ua.pc = "menu"
    /\ selected \subseteq DOMAIN ua.projects
    /\ ua' = IF selected = {} THEN [ua EXCEPT !.pc = "returned", !.selected = {}]
             ELSE [ua EXCEPT !.pc = "loop", !.selected = selected]
    /\ UNCHANGED <<updateframe, projectvars, ver, last, nops>>

\* "for idx in sorted(selected)": the next project and its manifest
UpdateAllLoad ==
    /\ ua.pc = "loop"
    /\ Remaining(ua) # {}
    /\ LET idx == CHOOSE i \in Remaining(ua) : \A j \in Remaining(ua) : i <= j
           p == ua.projects[idx]
       IN  /\ tree' = p.tree
           /\ manifest' = p.manifest
           /\ mraw' = p.mraw
           /\ claude_md' = p.claude_md
           /\ claude_old' = p.claude_old
           /\ failing' = p.failing
           /\ detected' = p.detected
           /\ ver' = [ver EXCEPT !.project = p.version]
           /\ ua' = [ua EXCEPT !.cur = idx,
                               !.pc = IF load_manifest(p.mraw, p.manifest).raised # "none"
                                      THEN "raised" ELSE "loaded"]
    /\ nops' = 0
    /\ last' = [last EXCEPT !.op = "load"]
    /\ UNCHANGED updateframe

\* the answers typed at the [R/M/Q] prompt of a project
UpdateAllChoices == {"R", "M", "Q"}

\* the cmd_init of the iteration: with the saved selections when the
\* manifest is truthy, interactive otherwise; the version prompt is
\* answered with yes and the [R/M/Q] prompt with any choice, or the version
\* prompt is answered with no
UpdateAllInit ==
    /\ ua.pc = "loaded"
    /\ last.op = "load"
    /\ \E m \in IF Truthy(load_manifest(mraw, manifest).value)
                 THEN {Mode(FALSE, ua.force, "", ""), Mode(FALSE, ua.force, "y", "")}
                 ELSE {Mode(TRUE, ua.force, "y", c) : c \in UpdateAllChoices}
                          \cup {Mode(TRUE, ua.force, "n", "Q")} :
           cmd_init(m)

\* the cmd_init of the iteration goes on after an input()
UpdateAllInitStep ==
    /\ ua.pc = "loaded"
    /\ CmdInitSteps({FullSelection(repo)})

\* a run that ends an iteration without a result
NoBucket(truthy, raised, success) ==
    IF raised # "none" THEN "none"
    ELSE IF ~success THEN "skipped"
    ELSE IF truthy THEN "updated" ELSE "interactive"

\* the list the iteration appends the project to
Bucket(truthy, raised, success) ==
    IF raised # "none" THEN "failed"
    ELSE IF ~success THEN "skipped"
    ELSE IF truthy THEN "updated" ELSE "interactive"

\* the end of the iteration: the result is recorded and the call of
\* cmd_init is over, its arguments and what it rendered are gone; the
\* summary follows the last one
UpdateAllRecord ==
    /\ ua.pc = "loaded"
    /\ last.op = "cmd_init"
    /\ LET truthy == Truthy(load_manifest(mdop.raw, mdop.saved).value)
           bucket == Bucket(truthy, exc, last.ok)
           p == [tree |-> tree, manifest |-> manifest, mraw |-> mraw,
                 claude_md |-> claude_md, claude_old |-> claude_old,
                 version |-> ver.project, failing |-> failing, detected |-> detected]
           order == Append(ua.order, ua.cur)
       IN  ua' = [ua EXCEPT
                    !.projects[ua.cur] = p,
                    !.order = order,
                    !.outcomes = Append(ua.outcomes,
                                        [idx |-> ua.cur, raised |-> exc, success |-> last.ok,
                                         truthy |-> truthy]),
                    !.results = IF bucket = "none" THEN ua.results
                                ELSE [ua.results EXCEPT
                                        ![bucket] = Append(ua.results[bucket], ua.cur)],
                    !.pc = IF ua.selected \ Range(order) = {} THEN "done" ELSE "loop"]
    /\ last' = [RegOp("recorded", NoRegSel) EXCEPT !.pfx = last.pfx, !.refs = last.refs]
    /\ hdr' = <<>> /\ rin' = NoRender /\ mode' = NoMode /\ mdop' = NoMdOp
    /\ exc' = "none"
    /\ UNCHANGED <<repo, psrc, sources, prev, nuser, cand, verdict, mrules, mout, menu>>
    /\ UNCHANGED <<projectvars, ver, nops>>

NextUpdateAll ==
    \/ UpdateAllLabels
    \/ \E selected \in SUBSET (1..MaxProjects) : UpdateAllSelect(selected)
    \/ UpdateAllLoad
    \/ UpdateAllInit
    \/ UpdateAllInitStep
    \/ UpdateAllRecord

SpecUpdateAll == InitUpdateAll /\ [][NextUpdateAll]_vars /\ WF_vars(NextUpdateAll)

\* how often idx is in the four result lists
Times(results, idx) ==
    Cardinality({<<b, i>> \in UNION {{b} \X (1..Len(results[b])) : b \in DOMAIN results} :
                    results[b][i] = idx})

\* the processed indices are the smallest selected ones, in ascending order
InIndexOrder(u) ==
    /\ \A i \in 1..Len(u.order) : u.order[i] \in u.selected
    /\ \A i, j \in 1..Len(u.order) : i < j => u.order[i] < u.order[j]
    /\ \A i \in 1..Len(u.order) : \A k \in u.selected : k < u.order[i] => k \in Range(u.order)

\* every processed project is in one list, once; no other project is in any
OneBucketEach(u) ==
    \A idx \in DOMAIN u.projects :
        Times(u.results, idx) = IF idx \in Range(u.order) THEN 1 ELSE 0

\* a project whose cmd_init raised is in failed
RaisedAreFailed(u) ==
    \A i \in 1..Len(u.outcomes) :
        u.outcomes[i].raised # "none" => u.outcomes[i].idx \in Range(u.results.failed)

UpdateAllSafe ==
    /\ InIndexOrder(ua)
    /\ OneBucketEach(ua)
    /\ RaisedAreFailed(ua)
    /\ ua.pc = "done" => Range(ua.order) = ua.selected

\* C26: the selected projects are processed once each in index order and
\* each ends in exactly one of updated, interactive, skipped and failed; a
\* project whose cmd_init raised is in failed; and once the loop has begun
\* it reaches its end with every selected project processed.
C26_EachSelectedOnce ==
    /\ []UpdateAllSafe
    /\ (ua.pc = "loop") ~> (ua.pc = "done" /\ Range(ua.order) = ua.selected)

\* C26 witness: two projects were selected; the first one's cmd_init raised
\* and it is in failed; the second was processed after it and is in updated.
C26_Witness ==
    /\ ua.pc = "done"
    /\ ua.selected = {1, 2}
    /\ ua.order = <<1, 2>>
    /\ ua.outcomes[1].raised # "none"
    /\ ua.results.failed = <<1>>
    /\ ua.results.updated = <<2>>

(***************************************************************************)
(* SpecFlatten: deploys from a private source whose rules directory has    *)
(* two sub-folders with a rule of the same file name in each.              *)
(***************************************************************************)
R_SD == <<"s", "/", "d">> \o MD

\* source 1 holds rules l/d.md, s/d.md and l/e.md; source 2 holds l/e.md
FlatSources ==
    [path \in Paths |->
        IF path = Path1
        THEN [resolves |-> TRUE,
              has |-> {PSrc(Path1, "rules", R_D), PSrc(Path1, "rules", R_SD),
                       PSrc(Path1, "rules", R_E), PSrc(Path1, "skills", D_DIR)}]
        ELSE [resolves |-> TRUE, has |-> {PSrc(Path2, "rules", R_E)}]]

\* the selections of rules, in the order of the source's listing and in
\* the reverse order, with and without a skill
FlatSelections ==
    {[d \in Dirs |-> CASE d = "rules" -> rules
                       [] d = "skills" -> skills
                       [] OTHER -> <<>>] :
        rules \in SubLists(<<R_D, R_E, R_SD, R_X>>) \cup SubLists(<<R_SD, R_E, R_D>>),
        skills \in {<<>>, <<D_DIR>>}}

InitFlatten ==
    /\ tree = EmptyTree
    /\ repo = RepoAll
    /\ psrc = FlatSources
    /\ sources = <<>>
    /\ manifest = NoManifest
    /\ prev = tree
    /\ nuser = 0
    /\ nops = 0
    /\ last = [op |-> "init", pfx |-> {}, refs |-> <<>>, reg |-> NoRegSel, prefix |-> <<>>,
               path |-> <<>>, sel |-> SelNone, rep |-> EmptyReport, res |-> <<>>,
               ok |-> TRUE]
    /\ Idle

NextFlatten ==
    \/ \E d \in Dirs : \E n \in PrivateUserNames(d) : UserAdd(d, n)
    \/ \E p \in {PFX_P, PFX_PQ} : Clean(p)
    \/ \E p \in {PFX_P, PFX_PQ} : \E path \in Paths : \E sel \in FlatSelections :
           Deploy(path, p, sel)

SpecFlatten == InitFlatten /\ [][NextFlatten]_vars

\* two entries of directory d hold the two sources
TwoEntries(t, d, src1, src2) ==
    \E n1, n2 \in DOMAIN t[d].ents :
        n1 # n2 /\ t[d].ents[n1] = src1 /\ t[d].ents[n2] = src2

\* C30: after a deploy of a private source, any two different identifiers
\* of one category that the report lists have two different destination
\* entries, each holding the content of its own source (two rules of
\* different sub-folders with the same file name included).
C30_DistinctIdsDistinctEntries ==
    last.op = "deploy" =>
        \A d \in Dirs : \A i, j \in 1..Len(last.rep[d]) :
            last.rep[d][i] # last.rep[d][j] =>
                TwoEntries(tree, d, PSrc(last.path, d, last.rep[d][i]),
                           PSrc(last.path, d, last.rep[d][j]))

====
